---- MODULE Spec2Model ----
(***************************************************************************)
(* A model of the analytical core of tf2-bot-kicker-gui:                   *)
(*   - the record store      (src/src/player_checker.rs, PlayerChecker)    *)
(*   - the party detector    (src/src/server/parties.rs, Parties)          *)
(*   - the enrichment thread (src/src/steamapi.rs, create_api_thread)      *)
(* Each component has its own specification (StoreSpec, PartySpec,         *)
(* ApiSpec); the variables of the other components stay at their initial   *)
(* value.                                                                  *)
(*                                                                         *)
(* Strings the code inspects character by character (steamids, the text    *)
(* of a steamid list) are sequences of one-character strings; strings the  *)
(* code only compares or formats (kinds, notes, file names) are strings.   *)
(***************************************************************************)
EXTENDS Integers, Sequences, FiniteSets, TLC

VARIABLES
    players,            \* PlayerChecker.players: steamid -> PlayerRecord
    external_players,   \* PlayerChecker.external_players
    last,               \* history: the last record-store operation, its input and the stores before it
    nops,               \* history: number of record-store operations performed
    player_map,         \* the roster given to Parties::update: steamid32 -> Player
    p_players,          \* Parties.players
    graph,              \* Parties.graph
    parties,            \* Parties.parties: a sequence of sets of steamid32
    party_panic,        \* "assert": the assertion of find_parties failed, "unwrap": update panicked at a friend's steamid, "" else
    snap,               \* history: the roster and the iteration order of the last update
    steamapi_key,       \* state.settings.steamapi_key
    steamhistory_key,   \* state.settings.steamhistory_key
    server_players,     \* state.server.get_players(): steamid32 -> the player of the server
    apis,               \* one record per call of create_api_thread: its channels, worker and units
    nreq,               \* history: number of requests sent to any intake queue
    bots_regx,          \* PlayerChecker.bots_regx: the patterns, each as its source text
    regx_file,          \* the content of the file save_regex writes (cfg/regx.txt)
    rlast,              \* history: the last pattern operation, its input and the state before it
    nrops,              \* history: number of pattern operations performed
    unit_in,            \* a unit on its own: what its fetches come to, sh_key and the steamid
    unit_out,           \* a unit on its own: the result of its closure, once it has run
    asked,              \* history: the last call of get_player_party_indicator and its result
    paused,             \* state.settings.paused
    kick_bots,          \* state.settings.kick_bots
    kick_cheaters,      \* state.settings.kick_cheaters
    io_sent,            \* history: the requests given to state.io, each with paused at that time
    prev,               \* history: the players and the parties of the detector before the last rebuild
    codec_in,           \* an identity given to the conversions: its form and its text
    codec_out,          \* the intermediate and the final result of the round trip, once it has run
    received,           \* the responses that wait in state.steamapi_request_receiver, viewed on their own
    handled             \* the responses the control loop has handled, first to last

storeVars == <<players, external_players, last, nops>>

partyVars == <<player_map, p_players, graph, parties, party_panic, snap>>

apiVars == <<steamapi_key, steamhistory_key, server_players, apis, nreq>>

regexVars == <<bots_regx, regx_file, rlast, nrops>>

unitVars == <<unit_in, unit_out>>

indicatorVars == <<asked>>

ctlVars == <<paused, kick_bots, kick_cheaters, io_sent>>

rebuildVars == <<prev>>

codecVars == <<codec_in, codec_out>>

handleVars == <<received, handled>>

vars == <<storeVars, partyVars, apiVars, regexVars, unitVars, indicatorVars, ctlVars, rebuildVars, codecVars, handleVars>>

\* what the operations of one component leave alone
notStore == <<partyVars, apiVars, regexVars, unitVars, indicatorVars, ctlVars, rebuildVars, codecVars, handleVars>>

notParty == <<storeVars, apiVars, regexVars, unitVars, indicatorVars, ctlVars, rebuildVars, codecVars, handleVars>>

notApi == <<storeVars, partyVars, regexVars, unitVars, indicatorVars, ctlVars, rebuildVars, codecVars, handleVars>>

notRegex == <<storeVars, partyVars, apiVars, unitVars, indicatorVars, ctlVars, rebuildVars, codecVars, handleVars>>

notUnit == <<storeVars, partyVars, apiVars, regexVars, indicatorVars, ctlVars, rebuildVars, codecVars, handleVars>>

notIndicator == <<storeVars, apiVars, regexVars, unitVars, ctlVars, rebuildVars, codecVars, handleVars>>

notCtl == <<storeVars, partyVars, apiVars, regexVars, unitVars, indicatorVars, rebuildVars, codecVars, handleVars>>

notRebuild == <<storeVars, apiVars, regexVars, unitVars, indicatorVars, ctlVars, codecVars, handleVars>>

notCodec == <<storeVars, partyVars, apiVars, regexVars, unitVars, indicatorVars, ctlVars, rebuildVars, handleVars>>

notHandle == <<storeVars, partyVars, regexVars, unitVars, indicatorVars, ctlVars, rebuildVars, codecVars>>

\* ------------------------------------------------------------------------
\* Characters and decimal numbers
\* ------------------------------------------------------------------------

Digits == {"0", "1", "2", "3", "4", "5", "6", "7", "8", "9"}

DigitChar == <<"0", "1", "2", "3", "4", "5", "6", "7", "8", "9">>

DigitValues ==
    [c \in Digits |-> CHOOSE d \in 0..9 : DigitChar[d + 1] = c]

DigitVal(c) == DigitValues[c]

\* A character is a string of one character; a character that a string of this
\* notation cannot hold is written as its code point, "U+0661".
\*
\* decimal digits other than the ten of ASCII (general category Nd) come in runs of
\* ten code points: the runs that begin at a code point ending in 0, written without
\* that last hexadecimal digit
DigitRuns0 ==
    {"U+066", "U+06F", "U+07C", "U+0E5", "U+0ED", "U+0F2", "U+104", "U+109", "U+17E",
     "U+181", "U+19D", "U+1A8", "U+1A9", "U+1B5", "U+1BB", "U+1C4", "U+1C5", "U+A62",
     "U+A8D", "U+A90", "U+A9D", "U+A9F", "U+AA5", "U+ABF", "U+FF1", "U+104A", "U+10D3",
     "U+110F", "U+111D", "U+112F", "U+1145", "U+114D", "U+1165", "U+116C", "U+1173",
     "U+118E", "U+1195", "U+11C5", "U+11D5", "U+11DA", "U+16A6", "U+16AC", "U+16B5",
     "U+1E14", "U+1E2F", "U+1E95", "U+1FBF",
     "U+10D4", "U+116D", "U+11BF", "U+11F5", "U+1613", "U+16D7", "U+1CCF", "U+1E4F"}

\* the runs that begin at a code point ending in 6
DigitRuns6 ==
    {"U+096", "U+09E", "U+0A6", "U+0AE", "U+0B6", "U+0BE", "U+0C6", "U+0CE", "U+0D6",
     "U+0DE", "U+194", "U+1106", "U+1113"}

HexDigits == Digits \cup {"A", "B", "C", "D", "E", "F"}

\* the second run of Myanmar Extended-C digits, U+116DA to U+116E3, and the run
\* U+1E5F1 to U+1E5FA begin elsewhere
DigitRunsOther ==
    {"U+116DA", "U+116DB", "U+116DC", "U+116DD", "U+116DE", "U+116DF", "U+116E0",
     "U+116E1", "U+116E2", "U+116E3",
     "U+1E5F1", "U+1E5F2", "U+1E5F3", "U+1E5F4", "U+1E5F5", "U+1E5F6", "U+1E5F7",
     "U+1E5F8", "U+1E5F9", "U+1E5FA"}

\* the mathematical digits U+1D7CE to U+1D7FF are five runs in a row
UnicodeDigits ==
    {b \o d : b \in DigitRuns0, d \in Digits}
    \cup {b \o d : b \in DigitRuns6, d \in HexDigits \ {"0", "1", "2", "3", "4", "5"}}
    \cup DigitRunsOther
    \cup {"U+1D7CE", "U+1D7CF"}
    \cup {b \o d : b \in {"U+1D7D", "U+1D7E", "U+1D7F"}, d \in HexDigits}

\* \d of the regex crate (Unicode mode): any decimal digit
IsDigitAt(s, p) == p >= 1 /\ p <= Len(s) /\ s[p] \in Digits \cup UnicodeDigits

\* The 17 decimal digits of 76561197960265728, the offset between the two id forms.
OffsetDigits == <<7, 6, 5, 6, 1, 1, 9, 7, 9, 6, 0, 2, 6, 5, 7, 2, 8>>

Zeros(n) == [i \in 1..n |-> 0]

PadTo(ds, n) == IF Len(ds) >= n THEN ds ELSE Zeros(n - Len(ds)) \o ds

\* a >= b for two digit sequences of the same length
RECURSIVE GeDigits(_, _)
GeDigits(a, b) ==
    IF Len(a) = 0 THEN TRUE
    ELSE IF a[1] # b[1] THEN a[1] > b[1]
    ELSE GeDigits(Tail(a), Tail(b))

\* a - b for two digit sequences of the same length with a >= b, right to left with a borrow
RECURSIVE SubDigits(_, _, _, _)
SubDigits(a, b, i, borrow) ==
    IF i = 0 THEN <<>>
    ELSE LET d == a[i] - b[i] - borrow
         IN  IF d < 0 THEN Append(SubDigits(a, b, i - 1, 1), d + 10)
                      ELSE Append(SubDigits(a, b, i - 1, 0), d)

\* a + b for two digit sequences of the same length, right to left with a carry
RECURSIVE AddDigits(_, _, _, _)
AddDigits(a, b, i, carry) ==
    IF i = 0 THEN (IF carry = 0 THEN <<>> ELSE <<carry>>)
    ELSE LET d == a[i] + b[i] + carry
         IN  Append(AddDigits(a, b, i - 1, d \div 10), d % 10)

RECURSIVE StripZeros(_)
StripZeros(ds) ==
    IF Len(ds) <= 1 THEN ds
    ELSE IF ds[1] = 0 THEN StripZeros(Tail(ds))
    ELSE ds

ToChars(ds) == [i \in 1..Len(ds) |-> DigitChar[ds[i] + 1]]

ToDigits(s) == [i \in 1..Len(s) |-> DigitVal(s[i])]

RECURSIVE NatDigits(_)
NatDigits(n) == IF n < 10 THEN <<n>> ELSE Append(NatDigits(n \div 10), n % 10)

\* ------------------------------------------------------------------------
\* SteamIdCodec (crate::player, not among the sources: modelled from the
\* specification, sections 3 and 4.1)
\* ------------------------------------------------------------------------

ErrResult == [ok |-> FALSE, val |-> <<>>]

OkResult(v) == [ok |-> TRUE, val |-> v]

U1Prefix == <<"U", ":", "1", ":">>

\* to32 that prints every digit of the difference, leading zeros as well
SubtractOffsetNoStrip(a, b) ==
    IF ~GeDigits(a, b) THEN ErrResult
    ELSE OkResult(U1Prefix \o ToChars(SubDigits(a, b, Len(a), 0)))

\* to32: parse the decimal number, subtract the offset, print as U:1:<account>;
\* fails on a non-number and on a number below the offset.
SubtractOffset(a, b) ==
    IF ~GeDigits(a, b) THEN ErrResult
    ELSE OkResult(U1Prefix \o ToChars(StripZeros(SubDigits(a, b, Len(a), 0))))

\* the 20 decimal digits of 2^64 - 1, the largest value of the 64-bit form
U64MaxDigits == <<1, 8, 4, 4, 6, 7, 4, 4, 0, 7, 3, 7, 0, 9, 5, 5, 1, 6, 1, 5>>

\* the number of the digit sequence ds is a 64-bit value
FitsU64(ds) ==
    LET n == IF Len(ds) > 20 THEN Len(ds) ELSE 20
    IN  GeDigits(PadTo(U64MaxDigits, n), PadTo(ds, n))

steamid_64_to_32(s) ==
    IF Len(s) = 0 \/ \E i \in 1..Len(s) : s[i] \notin Digits THEN ErrResult
    ELSE IF ~FitsU64(ToDigits(s)) THEN ErrResult
    ELSE SubtractOffset(PadTo(ToDigits(s), IF Len(s) > 17 THEN Len(s) ELSE 17),
                        PadTo(OffsetDigits, IF Len(s) > 17 THEN Len(s) ELSE 17))

AddOffset(a, b) ==
    IF ~FitsU64(AddDigits(a, b, Len(a), 0)) THEN ErrResult
    ELSE OkResult(ToChars(StripZeros(AddDigits(a, b, Len(a), 0))))

\* the text without the bracket it may begin with and the bracket it may end with
StripBrackets(s) ==
    LET from == IF Len(s) > 0 /\ s[1] = "[" THEN 2 ELSE 1
        to == IF Len(s) >= from /\ s[Len(s)] = "]" THEN Len(s) - 1 ELSE Len(s)
    IN  SubSeq(s, from, to)

\* the account number of U:<universe>:<digits> plus the offset
AccountToId64(s) ==
    IF Len(s) < 5 \/ s[1] # "U" \/ s[2] # ":" \/ s[3] \notin Digits \/ s[4] # ":"
       \/ \E i \in 5..Len(s) : s[i] \notin Digits
    THEN ErrResult
    ELSE AddOffset(PadTo(ToDigits(SubSeq(s, 5, Len(s))), IF Len(s) - 4 > 17 THEN Len(s) - 4 ELSE 17),
                   PadTo(OffsetDigits, IF Len(s) - 4 > 17 THEN Len(s) - 4 ELSE 17))

\* to64: strip an optional bracket, parse the account number after the second colon,
\* add the offset
steamid_32_to_64(s) == AccountToId64(StripBrackets(s))

\* ------------------------------------------------------------------------
\* The two regular expressions of read_from_steamid_list_string
\* ------------------------------------------------------------------------

\* end of the longest run of digits that starts at p (the position after it)
RECURSIVE DigitRunEnd(_, _)
DigitRunEnd(s, p) == IF IsDigitAt(s, p) THEN DigitRunEnd(s, p + 1) ELSE p

\* U:\d:\d+ at p: the position after the match, 0 when there is none
UuidEnd(s, p) ==
    IF /\ p + 4 <= Len(s)
       /\ s[p] = "U" /\ s[p + 1] = ":" /\ IsDigitAt(s, p + 2) /\ s[p + 3] = ":"
       /\ IsDigitAt(s, p + 4)
    THEN DigitRunEnd(s, p + 4)
    ELSE 0

\* \[?(?P<uuid>U:\d:\d+)\]? at p: [from, to) of the match and of the group uuid
RegMatchAt(s, p) ==
    LET open == p <= Len(s) /\ s[p] = "["
        u    == IF open THEN p + 1 ELSE p
        e    == UuidEnd(s, u)
        e2   == IF e # 0 /\ e <= Len(s) /\ s[e] = "]" THEN e + 1 ELSE e
    IN  [found |-> e # 0, from |-> p, to |-> e2, ufrom |-> u, uto |-> e]

\* reg.find_iter(contents): the matched substrings, left to right, not overlapping
RECURSIVE RegFindIter(_, _)
RegFindIter(s, p) ==
    IF p > Len(s) THEN <<>>
    ELSE LET m == RegMatchAt(s, p)
         IN  IF m.found THEN <<SubSeq(s, m.from, m.to - 1)>> \o RegFindIter(s, m.to)
             ELSE RegFindIter(s, p + 1)

\* the first match of reg in s, as reg.captures(s) finds it
RECURSIVE RegCaptures(_, _)
RegCaptures(s, p) ==
    IF p > Len(s) THEN [found |-> FALSE, uuid |-> <<>>]
    ELSE LET m == RegMatchAt(s, p)
         IN  IF m.found THEN [found |-> TRUE, uuid |-> SubSeq(s, m.ufrom, m.uto - 1)]
             ELSE RegCaptures(s, p + 1)

\* 7656\d{13} at p
Reg64MatchAt(s, p) ==
    /\ p + 16 <= Len(s)
    /\ s[p] = "7" /\ s[p + 1] = "6" /\ s[p + 2] = "5" /\ s[p + 3] = "6"
    /\ \A i \in (p + 4)..(p + 16) : IsDigitAt(s, i)

\* reg64.find_iter(contents)
RECURSIVE Reg64FindIter(_, _)
Reg64FindIter(s, p) ==
    IF p > Len(s) THEN <<>>
    ELSE IF Reg64MatchAt(s, p) THEN <<SubSeq(s, p, p + 16)>> \o Reg64FindIter(s, p + 17)
    ELSE Reg64FindIter(s, p + 1)

\* ------------------------------------------------------------------------
\* PlayerChecker
\* ------------------------------------------------------------------------

PlayerTypes == {"Player", "Bot", "Cheater", "Suspicious"}

PlayerRecord(steamid, player_type, notes) ==
    [steamid |-> steamid, player_type |-> player_type, notes |-> notes]

EmptyMap == [k \in {} |-> PlayerRecord(<<>>, "Player", "")]

\* HashMap::insert and HashMap::remove
MapInsert(m, k, v) == [x \in DOMAIN m \cup {k} |-> IF x = k THEN v ELSE m[x]]

MapRemove(m, k) == [x \in DOMAIN m \ {k} |-> m[x]]

NoRecord == [some |-> FALSE]

SomeRecord(r) == [some |-> TRUE, rec |-> r]

\* check_player_steamid, looked up in external_players first (a wrong precedence)
check_player_steamid_external_first(pl, ext, steamid) ==
    IF steamid \in DOMAIN ext THEN SomeRecord(ext[steamid])
    ELSE IF steamid \in DOMAIN pl THEN SomeRecord(pl[steamid])
    ELSE NoRecord

\* check_player_steamid: self.players.get(..).cloned().or_else(|| self.external_players.get(..).cloned())
check_player_steamid(pl, ext, steamid) ==
    IF steamid \in DOMAIN pl THEN SomeRecord(pl[steamid])
    ELSE IF steamid \in DOMAIN ext THEN SomeRecord(ext[steamid])
    ELSE NoRecord

\* update_player_record that keeps a record it should delete (inserts unconditionally)
update_player_record_always_insert(pl, player) == MapInsert(pl, player.steamid, player)

\* update_player_record: the new content of self.players
update_player_record(pl, player) ==
    IF player.player_type = "Player" /\ player.notes = ""
    THEN MapRemove(pl, player.steamid)
    ELSE MapInsert(pl, player.steamid, player)

\* format!("Imported from {} as {:?}", filename, as_player_type)
ImportNote(filename, as_player_type) ==
    "Imported from " \o filename \o " as " \o as_player_type

\* the duplicate check of the import loops, overwriting instead of skipping
InsertImportedOverwrite(pl, steamid, as_player_type, filename) ==
    MapInsert(pl, steamid, PlayerRecord(steamid, as_player_type, ImportNote(filename, as_player_type)))

\* the duplicate check of the import loops, annotating the record already present
InsertImportedAnnotate(pl, steamid, as_player_type, filename) ==
    IF steamid \in DOMAIN pl
    THEN MapInsert(pl, steamid,
             PlayerRecord(steamid, pl[steamid].player_type,
                          pl[steamid].notes \o ImportNote(filename, as_player_type)))
    ELSE MapInsert(pl, steamid, PlayerRecord(steamid, as_player_type, ImportNote(filename, as_player_type)))

\* one pass of either import loop: skip a steamid that is a key already, insert otherwise
InsertImported(pl, steamid, as_player_type, filename) ==
    IF steamid \in DOMAIN pl THEN pl
    ELSE MapInsert(pl, steamid, PlayerRecord(steamid, as_player_type, ImportNote(filename, as_player_type)))

\* for m in reg.find_iter(&contents) { match reg.captures(m.as_str()) ... }
RECURSIVE ImportLoop32(_, _, _, _)
ImportLoop32(pl, ms, as_player_type, filename) ==
    IF Len(ms) = 0 THEN pl
    ELSE LET c    == RegCaptures(ms[1], 1)
             next == IF c.found THEN InsertImported(pl, c.uuid, as_player_type, filename) ELSE pl
         IN  ImportLoop32(next, Tail(ms), as_player_type, filename)

\* for m in reg64.find_iter(&contents) { steamid_64_to_32 ... }
RECURSIVE ImportLoop64(_, _, _, _)
ImportLoop64(pl, ms, as_player_type, filename) ==
    IF Len(ms) = 0 THEN pl
    ELSE LET steamid == steamid_64_to_32(ms[1])
             next    == IF ~steamid.ok THEN pl
                        ELSE InsertImported(pl, steamid.val, as_player_type, filename)
         IN  ImportLoop64(next, Tail(ms), as_player_type, filename)

\* read_from_steamid_list_string: the new content of the target map
read_from_steamid_list_string(pl, contents, as_player_type, filename) ==
    ImportLoop64(ImportLoop32(pl, RegFindIter(contents, 1), as_player_type, filename),
                 Reg64FindIter(contents, 1), as_player_type, filename)

\* A JSON value read with as_str().unwrap_or(""): a string, or anything else
JStr(v) == [str |-> TRUE, v |-> v]

JNull == [str |-> FALSE]

AsStrOr(j, default) == IF j.str THEN j.v ELSE default

\* the body of a loop that skips an entry whose steamid is a key already, as the
\* import loops of read_from_steamid_list_string do
read_players_entry_skips_existing(pl, p) ==
    LET steamid     == AsStrOr(p.steamid, <<>>)
        player_type == AsStrOr(p.player_type, "")
        notes       == AsStrOr(p.notes, "")
    IN  IF steamid = <<>> THEN pl
        ELSE IF player_type \notin PlayerTypes THEN pl
        ELSE IF steamid \in DOMAIN pl THEN pl
        ELSE MapInsert(pl, steamid, PlayerRecord(steamid, player_type, notes))

\* the body of the loop of read_players: the map after one entry p of the array
read_players_entry(pl, p) ==
    LET steamid     == AsStrOr(p.steamid, <<>>)
        player_type == AsStrOr(p.player_type, "")
        notes       == AsStrOr(p.notes, "")
    IN  IF steamid = <<>> THEN pl
        ELSE IF player_type \notin PlayerTypes THEN pl
        ELSE MapInsert(pl, steamid, PlayerRecord(steamid, player_type, notes))

\* the entry is one that read_players skips (either continue)
EntryIsBad(p) ==
    AsStrOr(p.steamid, <<>>) = <<>> \/ AsStrOr(p.player_type, "") \notin PlayerTypes

\* read_players whose loop stops at the first bad entry (break instead of continue)
RECURSIVE read_players_loop_break(_, _)
read_players_loop_break(pl, json) ==
    IF Len(json) = 0 THEN pl
    ELSE IF EntryIsBad(json[1]) THEN pl
    ELSE read_players_loop_break(read_players_entry(pl, json[1]), Tail(json))

\* for p in json.as_array().unwrap_or(&vec![]) { ... }
RECURSIVE read_players_loop(_, _)
read_players_loop(pl, json) ==
    IF Len(json) = 0 THEN pl
    ELSE read_players_loop(read_players_entry(pl, json[1]), Tail(json))

\* read_players after the file was read and parsed: a JSON value that is no array gives no entries
read_players(pl, json) ==
    read_players_loop(pl, IF json.is_array THEN json.items ELSE <<>>)

\* ------------------------------------------------------------------------
\* Inputs of the record store
\* ------------------------------------------------------------------------

Id5 == U1Prefix \o <<"5">>

Id2 == U1Prefix \o <<"2">>

Id111 == U1Prefix \o <<"1", "1", "1">>

Id222 == U1Prefix \o <<"2", "2", "2">>

\* 76561197960265730 and 76561197960265733, the SteamId64 forms of U:1:2 and U:1:5
Id64_2 == <<"7", "6", "5", "6", "1", "1", "9", "7", "9", "6", "0", "2", "6", "5", "7", "3", "0">>

Id64_5 == <<"7", "6", "5", "6", "1", "1", "9", "7", "9", "6", "0", "2", "6", "5", "7", "3", "3">>

\* "[U:1:111] U:1:222 76561197960265730"
ScenarioAText == <<"[">> \o Id111 \o <<"]", " ">> \o Id222 \o <<" ">> \o Id64_2

\* "U:1:5 [U:1:5" : the same identity twice, the second with an unclosed bracket
TextTwice == Id5 \o <<" ", "[">> \o Id5

\* "76561197960265733,U:1:2" : U:1:5 in SteamId64 form, and U:1:2
TextMixed == Id64_5 \o <<",">> \o Id2

\* "76560000000000000 U:1: 7656119796026573" : a 17 digit number below the offset,
\* an identity without account number, a 16 digit number
TextMalformed ==
    <<"7", "6", "5", "6", "0", "0", "0", "0", "0", "0", "0", "0", "0", "0", "0", "0", "0">>
    \o <<" ">> \o U1Prefix \o <<" ">> \o SubSeq(Id64_5, 1, 16)

\* "U:0:5]U:1:76561197960265730" : universe 0, and an account number that is
\* itself of SteamId64 form (found by both expressions)
TextNested == <<"U", ":", "0", ":", "5", "]">> \o U1Prefix \o Id64_2

\* digits that are not ASCII: "U:\u0661:\u0662" is a match of the first expression, and
\* "7656" with thirteen \u0660 a match of the second that is no number
TextUnicodeDigits ==
    <<"U", ":", "U+0661", ":", "U+0662", " ", "7", "6", "5", "6">>
    \o [i \in 1..13 |-> "U+0660"]

Texts ==
    {<<>>, ScenarioAText, TextTwice, TextMixed, TextMalformed, TextNested,
     TextUnicodeDigits}

ImportKinds == {"Bot", "Player"}

FileNames == {"cfg/list.txt"}

UpsertRecords ==
    {PlayerRecord(id, k[1], k[2]) :
        id \in {Id5, Id2}, k \in {<<"Player", "">>, <<"Bot", "">>, <<"Player", "note">>}}

LookupIds == {Id5, Id2, Id111}

JEntry(steamid, player_type, notes) ==
    [steamid |-> steamid, player_type |-> player_type, notes |-> notes]

EBot5 == JEntry(JStr(Id5), JStr("Bot"), JStr(""))

ECheater5 == JEntry(JStr(Id5), JStr("Cheater"), JStr("seen"))

EPlayer2 == JEntry(JStr(Id2), JStr("Player"), JStr(""))

ESuspicious2 == JEntry(JStr(Id2), JStr("Suspicious"), JNull)

ENoId == JEntry(JStr(<<>>), JStr("Bot"), JStr("seen"))

ENullId == JEntry(JNull, JStr("Cheater"), JStr(""))

EBadKind111 == JEntry(JStr(Id111), JStr("bot"), JStr(""))

ENullKind5 == JEntry(JStr(Id5), JNull, JStr("seen"))

JArray(items) == [is_array |-> TRUE, items |-> items]

JsonFiles ==
    { [is_array |-> FALSE, items |-> <<>>],
      JArray(<<>>),
      JArray(<<EBot5>>),
      JArray(<<EPlayer2>>),
      JArray(<<EBadKind111, ESuspicious2>>),
      JArray(<<EBot5, ENoId, ESuspicious2>>),
      JArray(<<EBot5, ECheater5>>),
      JArray(<<ESuspicious2, ENullKind5, ENullId>>) }

\* ------------------------------------------------------------------------
\* Operations of the record store
\* ------------------------------------------------------------------------

\* number of record-store operations in one behaviour
MaxOps == 3

NoLast ==
    [op |-> "none", steamid |-> <<>>, record |-> PlayerRecord(<<>>, "Player", ""),
     contents |-> <<>>, kind |-> "", filename |-> "", saved |-> FALSE,
     json |-> JArray(<<>>), result |-> NoRecord, repeat |-> FALSE,
     pre_players |-> EmptyMap, pre_external |-> EmptyMap, file |-> "ok", err |-> FALSE]

Pre(op) == [NoLast EXCEPT !.op = op, !.pre_players = players, !.pre_external = external_players]

StoreInit ==
    /\ players = EmptyMap
    /\ external_players = EmptyMap
    /\ last = NoLast
    /\ nops = 0

\* PlayerChecker::update_player_record
UpdatePlayerRecord(player) ==
    /\ nops < MaxOps
    /\ players' = update_player_record(players, player)
    /\ last' = [Pre("upsert") EXCEPT !.record = player, !.steamid = player.steamid]
    /\ nops' = nops + 1
    /\ UNCHANGED <<external_players, notStore>>

\* PlayerChecker::read_from_steamid_list_string
ReadFromSteamidListString(contents, as_player_type, filename, saved) ==
    /\ nops < MaxOps
    /\ IF saved
       THEN /\ players' = read_from_steamid_list_string(players, contents, as_player_type, filename)
            /\ UNCHANGED external_players
       ELSE /\ external_players' =
                   read_from_steamid_list_string(external_players, contents, as_player_type, filename)
            /\ UNCHANGED players
    /\ last' = [Pre("importList") EXCEPT !.contents = contents, !.kind = as_player_type,
                    !.filename = filename, !.saved = saved,
                    !.repeat = /\ last.op = "importList" /\ last.contents = contents
                               /\ last.kind = as_player_type /\ last.filename = filename
                               /\ last.saved = saved]
    /\ nops' = nops + 1
    /\ UNCHANGED notStore

\* PlayerChecker::read_players, the file read and parsed
ReadPlayers(json) ==
    /\ nops < MaxOps
    /\ players' = read_players(players, json)
    /\ last' = [Pre("importRecords") EXCEPT !.json = json]
    /\ nops' = nops + 1
    /\ UNCHANGED <<external_players, notStore>>

\* PlayerChecker::check_player_steamid
CheckPlayerSteamid(steamid) ==
    /\ nops < MaxOps
    /\ last' = [Pre("lookup") EXCEPT !.steamid = steamid,
                    !.result = check_player_steamid(players, external_players, steamid)]
    /\ nops' = nops + 1
    /\ UNCHANGED <<players, external_players, notStore>>

StoreNext ==
    \/ \E player \in UpsertRecords : UpdatePlayerRecord(player)
    \/ \E contents \in Texts, k \in ImportKinds, f \in FileNames, saved \in BOOLEAN :
           ReadFromSteamidListString(contents, k, f, saved)
    \/ \E json \in JsonFiles : ReadPlayers(json)
    \/ \E steamid \in LookupIds : CheckPlayerSteamid(steamid)



\* ------------------------------------------------------------------------
\* petgraph::Graph, as parties.rs uses it. A graph is its node weights, in node
\* index order, and its edges <<source, target>> (node indices), in edge index order.
\* ------------------------------------------------------------------------

EmptyGraph == [nodes |-> <<>>, edges |-> <<>>]

\* Graph::add_node
AddNode(g, w) == [g EXCEPT !.nodes = Append(g.nodes, w)]

\* the index of the node whose weight is w: graph.node_indices().find(|ind| graph[*ind] == w)
NodeIndexOf(g, w) == CHOOSE i \in 1..Len(g.nodes) : g.nodes[i] = w /\ \A j \in 1..(i - 1) : g.nodes[j] # w

\* Graph::update_edge on a directed graph: add a -> b unless that edge exists
UpdateEdgeDirected(g, a, b) ==
    IF \E i \in 1..Len(g.edges) : g.edges[i] = <<a, b>> THEN g
    ELSE [g EXCEPT !.edges = Append(g.edges, <<a, b>>)]

\* Graph::update_edge on an undirected graph: add a - b unless a - b or b - a exists
UpdateEdgeUndirected(g, a, b) ==
    IF \E i \in 1..Len(g.edges) : g.edges[i] = <<a, b>> \/ g.edges[i] = <<b, a>> THEN g
    ELSE [g EXCEPT !.edges = Append(g.edges, <<a, b>>)]

\* Graph::neighbors on an undirected graph: the targets of the edges that start at a,
\* newest edge first, then the sources of the edges that end at a (self loops skipped),
\* newest edge first
RECURSIVE NeighborsFrom(_, _, _, _)
NeighborsFrom(g, a, i, incoming) ==
    IF i = 0 THEN <<>>
    ELSE LET e == g.edges[i]
             here == IF incoming THEN (e[2] = a /\ e[1] # a) ELSE e[1] = a
             node == IF incoming THEN e[1] ELSE e[2]
         IN  (IF here THEN <<node>> ELSE <<>>) \o NeighborsFrom(g, a, i - 1, incoming)

Neighbors(g, a) ==
    NeighborsFrom(g, a, Len(g.edges), FALSE) \o NeighborsFrom(g, a, Len(g.edges), TRUE)

\* for succ in graph.neighbors(node) { if !discovered.is_visited(&succ) { stack.push(succ) } }
RECURSIVE PushUndiscovered(_, _, _)
PushUndiscovered(stack, ns, discovered) ==
    IF Len(ns) = 0 THEN stack
    ELSE PushUndiscovered(IF ns[1] \in discovered THEN stack ELSE Append(stack, ns[1]),
                          Tail(ns), discovered)

Pop(stack) == SubSeq(stack, 1, Len(stack) - 1)

\* DfsPostOrder::next until it returns None: the nodes in the order they finish
RECURSIVE DfsPostOrderRun(_, _, _, _, _)
DfsPostOrderRun(g, stack, discovered, finished, out) ==
    IF Len(stack) = 0 THEN [discovered |-> discovered, finished |-> finished, out |-> out]
    ELSE LET nx == stack[Len(stack)]
         IN  IF nx \notin discovered
             THEN DfsPostOrderRun(g, PushUndiscovered(stack, Neighbors(g, nx), discovered \cup {nx}),
                                  discovered \cup {nx}, finished, out)
             ELSE IF nx \notin finished
             THEN DfsPostOrderRun(g, Pop(stack), discovered, finished \cup {nx}, Append(out, nx))
             ELSE DfsPostOrderRun(g, Pop(stack), discovered, finished, out)

\* Dfs::next until it returns None: the nodes in the order they are visited
RECURSIVE DfsRun(_, _, _, _)
DfsRun(g, stack, discovered, out) ==
    IF Len(stack) = 0 THEN [discovered |-> discovered, out |-> out]
    ELSE LET node == stack[Len(stack)]
         IN  IF node \notin discovered
             THEN DfsRun(g, PushUndiscovered(Pop(stack), Neighbors(g, node), discovered \cup {node}),
                         discovered \cup {node}, Append(out, node))
             ELSE DfsRun(g, Pop(stack), discovered, out)

\* kosaraju_scc, first phase: for i in g.node_identifiers() { ... finish_order.push(nx) }
RECURSIVE FinishOrder(_, _, _, _, _), FinishOrderAfter(_, _, _)
FinishOrder(g, i, discovered, finished, out) ==
    IF i > Len(g.nodes) THEN out
    ELSE IF i \in discovered THEN FinishOrder(g, i + 1, discovered, finished, out)
    ELSE FinishOrderAfter(g, i, DfsPostOrderRun(g, <<i>>, discovered, finished, out))

FinishOrderAfter(g, i, r) == FinishOrder(g, i + 1, r.discovered, r.finished, r.out)

\* kosaraju_scc, second phase: for i in finish_order.into_iter().rev() { ... sccs.push(scc) }
RECURSIVE CollectSccs(_, _, _, _, _), CollectSccsAfter(_, _, _, _, _)
CollectSccs(g, order, k, discovered, sccs) ==
    IF k = 0 THEN sccs
    ELSE IF order[k] \in discovered THEN CollectSccs(g, order, k - 1, discovered, sccs)
    ELSE CollectSccsAfter(g, order, k, sccs, DfsRun(g, <<order[k]>>, discovered, <<>>))

CollectSccsAfter(g, order, k, sccs, r) ==
    CollectSccs(g, order, k - 1, r.discovered, Append(sccs, r.out))

\* petgraph::algo::kosaraju_scc on an undirected graph
kosaraju_scc(g) == CollectSccs(g, FinishOrder(g, 1, {}, {}, <<>>), Len(g.nodes), {}, <<>>)

\* the component (index into sccs) that holds node n
SccOf(sccs, n) == CHOOSE c \in 1..Len(sccs) : \E j \in 1..Len(sccs[c]) : sccs[c][j] = n

\* the edges of a condensed graph that is not made acyclic: every edge of the graph,
\* between the components of its ends
RECURSIVE CondenseEdgesAll(_, _, _, _)
CondenseEdgesAll(g, sccs, i, cg) ==
    IF i > Len(g.edges) THEN cg
    ELSE CondenseEdgesAll(g, sccs, i + 1,
             [cg EXCEPT !.edges = Append(@, <<SccOf(sccs, g.edges[i][1]),
                                             SccOf(sccs, g.edges[i][2])>>)])

\* the edges of the condensed graph: every edge between two different components,
\* once per pair (update_edge)
RECURSIVE CondenseEdges(_, _, _, _)
CondenseEdges(g, sccs, i, cg) ==
    IF i > Len(g.edges) THEN cg
    ELSE LET source == SccOf(sccs, g.edges[i][1])
             target == SccOf(sccs, g.edges[i][2])
         IN  CondenseEdges(g, sccs, i + 1,
                 IF source # target THEN UpdateEdgeUndirected(cg, source, target) ELSE cg)

\* the weights of the nodes of component c, in node index order
RECURSIVE SccWeights(_, _, _, _)
SccWeights(g, sccs, c, i) ==
    IF i > Len(g.nodes) THEN <<>>
    ELSE (IF SccOf(sccs, i) = c THEN <<g.nodes[i]>> ELSE <<>>) \o SccWeights(g, sccs, c, i + 1)

\* petgraph::algo::condensation(g, true): one node per component, weighted with the
\* weights of its nodes
Condense(g, sccs) ==
    CondenseEdges(g, sccs, 1,
        [nodes |-> [c \in 1..Len(sccs) |-> SccWeights(g, sccs, c, 1)], edges |-> <<>>])

condensation(g) == Condense(g, kosaraju_scc(g))

\* ------------------------------------------------------------------------
\* Parties
\* ------------------------------------------------------------------------

\* account_info: Option<Result<AccountInfo, reqwest::Error>>, of AccountInfo the field
\* friends: Option<Result<Vec<friends::User>, reqwest::Error>>, of a User its steamid
InfoNone == [tag |-> "None"]

InfoErr == [tag |-> "Err"]

FriendsNone == [tag |-> "None"]

FriendsErr == [tag |-> "Err"]

FriendsOk(list) == [tag |-> "Ok", list |-> list]

InfoOk(friends) == [tag |-> "Ok", friends |-> friends]

Player(steamid32, account_info) == [steamid32 |-> steamid32, account_info |-> account_info]

\* if let Some(Ok(acif)) = &p.account_info { if let Some(Ok(friends)) = &acif.friends {..} }
\* with the last friend left out of the loop
PlayerFriendsButLast(p) ==
    IF p.account_info.tag = "Ok" /\ p.account_info.friends.tag = "Ok"
          /\ Len(p.account_info.friends.list) > 0
    THEN Pop(p.account_info.friends.list)
    ELSE <<>>

\* if let Some(Ok(acif)) = &p.account_info { if let Some(Ok(friends)) = &acif.friends {..} }:
\* the friends the loop runs over
PlayerFriends(p) ==
    IF p.account_info.tag = "Ok" /\ p.account_info.friends.tag = "Ok"
    THEN p.account_info.friends.list
    ELSE <<>>

\* account numbers of the players that can be in the roster or in a friends list
Accounts == {1, 2, 3, 4}

\* the two forms of the identity of each account
Sid32 == [n \in Accounts |-> U1Prefix \o ToChars(NatDigits(n))]

Sid64 == [n \in Accounts |-> steamid_32_to_64(Sid32[n]).val]

\* steamid_64_to_32 of a friend's steamid: the conversion, tabulated once for the
\* identities of the accounts above
FriendIds32 == [f \in {Sid64[n] : n \in Accounts} |-> steamid_64_to_32(f)]

FriendId32(f) == IF f \in DOMAIN FriendIds32 THEN FriendIds32[f] ELSE steamid_64_to_32(f)

\* if self.players.contains(&id) { ... }, with the edge added only towards a node of a
\* higher index
AddFriendEdgeForward(g, pls, node_ind, id) ==
    IF (\E i \in 1..Len(pls) : pls[i] = id) /\ NodeIndexOf(g, id) > node_ind
    THEN UpdateEdgeDirected(g, node_ind, NodeIndexOf(g, id))
    ELSE g

\* if self.players.contains(&id) { ... self.graph.update_edge(node_ind, friend_ind, ()) }
AddFriendEdge(g, pls, node_ind, id) ==
    IF \E i \in 1..Len(pls) : pls[i] = id
    THEN UpdateEdgeDirected(g, node_ind, NodeIndexOf(g, id))
    ELSE g

\* the graph when a loop of update has ended, and the graph when it was left by the
\* panic of steamid_64_to_32(&f.steamid).unwrap()
LoopDone(g) == [graph |-> g, panic |-> FALSE]

LoopPanicked(g) == [graph |-> g, panic |-> TRUE]

\* for f in friends { let id = steamid_64_to_32(&f.steamid).unwrap(); ... }
RECURSIVE AddFriendEdges(_, _, _, _)
AddFriendEdges(g, pls, node_ind, friends) ==
    IF Len(friends) = 0 THEN LoopDone(g)
    ELSE IF ~FriendId32(friends[1]).ok THEN LoopPanicked(g)
    ELSE AddFriendEdges(AddFriendEdge(g, pls, node_ind, FriendId32(friends[1]).val),
                        pls, node_ind, Tail(friends))

\* for p in player_map.values() { ... }, the values in the order of the keys
RECURSIVE AddPlayerEdges(_, _, _, _)
AddPlayerEdges(g, pm, pls, i) ==
    IF i > Len(pls) THEN LoopDone(g)
    ELSE LET p == pm[pls[i]]
             r == AddFriendEdges(g, pls, NodeIndexOf(g, p.steamid32), PlayerFriends(p))
         IN  IF r.panic THEN r ELSE AddPlayerEdges(r.graph, pm, pls, i + 1)

\* for p in &self.players { self.graph.add_node(p.clone()); }
RECURSIVE AddNodes(_, _)
AddNodes(g, pls) == IF Len(pls) = 0 THEN g ELSE AddNodes(AddNode(g, pls[1]), Tail(pls))

\* Parties::update up to the call of find_parties, without self.graph.clear(): the
\* nodes and edges of the roster are added to the graph as it is
BuildGraphNoClear(pm, pls) == AddPlayerEdges(AddNodes(graph, pls), pm, pls, 1)

\* Parties::update up to the call of find_parties: the graph of the roster, or the
\* graph as the panic left it
BuildGraph(pm, pls) == AddPlayerEdges(AddNodes(EmptyGraph, pls), pm, pls, 1)

\* find_parties: the undirected copy of self.graph
RECURSIVE CopyEdgesUndirected(_, _, _)
CopyEdgesUndirected(g, ug, i) ==
    IF i > Len(g.edges) THEN ug
    ELSE CopyEdgesUndirected(g, UpdateEdgeUndirected(ug, g.edges[i][1], g.edges[i][2]), i + 1)

UndirGraph(g) == CopyEdgesUndirected(g, [nodes |-> g.nodes, edges |-> <<>>], 1)

\* .filter(|party| party.len() > 1), keeping the parties of one member as well
PartyFilterKeepsSingletons(party) == Cardinality(party) > 0

\* .filter(|party| party.len() > 1)
PartyFilter(party) == Cardinality(party) > 1

SeqToSet(q) == {q[i] : i \in 1..Len(q)}

RECURSIVE FilterParties(_)
FilterParties(ws) ==
    IF Len(ws) = 0 THEN <<>>
    ELSE (IF PartyFilter(SeqToSet(ws[1])) THEN <<SeqToSet(ws[1])>> ELSE <<>>)
         \o FilterParties(Tail(ws))

\* find_parties: the condensed graph (none when the roster is empty)
PartyGraph(pls, g) == IF Len(pls) = 0 THEN EmptyGraph ELSE condensation(UndirGraph(g))

\* ------------------------------------------------------------------------
\* Inputs of the party detector
\* ------------------------------------------------------------------------

\* longest friends list of a player in a roster snapshot
MaxFriends == 1

\* friends lists: the lists of at most MaxFriends accounts, in ascending order
RECURSIVE AscendingLists(_, _)
AscendingLists(len, above) ==
    IF len = 0 THEN {<<>>}
    ELSE {<<>>} \cup UNION {{<<n>> \o rest : rest \in AscendingLists(len - 1, n)} :
                              n \in {m \in Accounts : m > above}}

\* account_info with a friends list, and account_info of any kind
InfosWithFriends ==
    {InfoOk(FriendsOk([i \in 1..Len(l) |-> Sid64[l[i]]])) : l \in AscendingLists(MaxFriends, 0)}

AccountInfos ==
    {InfoNone, InfoErr, InfoOk(FriendsNone), InfoOk(FriendsErr)} \cup InfosWithFriends

\* the rosters: any set of accounts whose players all have a friends list, and any set
\* of accounts but the last with any account_info for each player
Rosters ==
    UNION {[{Sid32[n] : n \in A} -> InfosWithFriends] : A \in SUBSET Accounts}
    \cup UNION {[{Sid32[n] : n \in A} -> AccountInfos] : A \in SUBSET (Accounts \ {4})}

RosterOf(infos) == [k \in DOMAIN infos |-> Player(k, infos[k])]

Reverse(q) == [i \in 1..Len(q) |-> q[Len(q) + 1 - i]]

AccountOf(k) == CHOOSE n \in Accounts : Sid32[n] = k

\* the sequences that hold every element of S once
RECURSIVE Orders(_)
Orders(S) ==
    IF S = {} THEN {<<>>}
    ELSE UNION {{<<x>> \o rest : rest \in Orders(S \ {x})} : x \in S}

\* the orders in which the HashMap player_map is iterated: any order of its keys, the
\* same for keys() and values() within one update
IterationOrders(pm) == Orders(DOMAIN pm)

\* ------------------------------------------------------------------------
\* Operations of the party detector
\* ------------------------------------------------------------------------

NoSnap == [valid |-> FALSE, pm |-> <<>>, order |-> <<>>]

PartyInit ==
    /\ player_map \in {RosterOf(infos) : infos \in Rosters}
    /\ p_players = <<>>
    /\ graph = EmptyGraph
    /\ parties = <<>>
    /\ party_panic = ""
    /\ snap = NoSnap

\* Parties::update(player_map), the HashMap iterated in the order `order`
Update(order) ==
    /\ party_panic = ""
    /\ \E b \in {BuildGraph(player_map, order)} :
           /\ p_players' = order
           /\ graph' = b.graph
           /\ IF b.panic
              THEN party_panic' = "unwrap" /\ UNCHANGED parties
              ELSE \E pg \in {PartyGraph(order, b.graph)} :
                       IF Len(pg.edges) # 0
                       THEN party_panic' = "assert" /\ UNCHANGED parties
                       ELSE /\ parties' = FilterParties(pg.nodes)
                            /\ UNCHANGED party_panic
    /\ snap' = [valid |-> TRUE, pm |-> player_map, order |-> order]
    /\ UNCHANGED <<player_map, notParty>>

\* Parties::clear
Clear ==
    /\ party_panic = ""
    /\ p_players # <<>>
    /\ p_players' = <<>>
    /\ parties' = <<>>
    /\ graph' = EmptyGraph
    /\ snap' = NoSnap
    /\ UNCHANGED <<player_map, party_panic, notParty>>

PartyNext ==
    \/ \E order \in IterationOrders(player_map) : Update(order)
    \/ Clear

\* ------------------------------------------------------------------------
\* The enrichment thread (create_api_thread) and its channels
\*
\* apis[g] is what the g-th call of create_api_thread made: the intake queue
\* (request_q, with request_sender saying whether state still holds its Sender), the
\* response queue (response_q, with response_receiver saying whether state still
\* holds its Receiver), the dispatch worker and the units it spawned. The last
\* element of apis is the one state.steamapi_request_sender/_receiver refer to.
\* ------------------------------------------------------------------------

\* requests sent in one behaviour, and calls of create_api_thread after the first
MaxRequests == 2

MaxApply == 1

ApiKeys == {"", "key"}

ApiAccounts == {1, 2}

NoInfo == [tag |-> "None"]

ErrInfo == [tag |-> "Err"]

\* AccountInfo: friends is "None", "Ok" or "Err", sourcebans is "None" or "Some"
AccountInfo(friends, sourcebans) == [tag |-> "Ok", friends |-> friends, sourcebans |-> sourcebans]

\* the tuple (info, img, steamid) of the response queue; img says whether there is an image
Response(info, img, steamid) == [info |-> info, img |-> img, steamid |-> steamid]

\* the unit spawned for a request, s.spawn(|| { ... }), before it has run: sent lists
\* the identities of the tuples it put on the response queue
NewUnit(steamid) == [steamid |-> steamid, pc |-> "running", sent |-> <<>>, cause |-> ""]

\* create_api_thread(key, sh_key)
NewApi(key, sh_key) ==
    [key |-> key, sh_key |-> sh_key, request_q |-> <<>>, request_sender |-> TRUE,
     response_q |-> <<>>, response_receiver |-> TRUE, worker |-> "recv", units |-> <<>>]

Cur == Len(apis)

UnitRunning(u) == u.pc = "running"

\* what the fetches of a unit come to: summary is "err", "empty", "public" or "private"
\* (communityvisibilitystate is 3 or not), bans is "err", "empty" or "ok", friends is
\* "Ok" or "Err", sourcebans is "request_err" (reqwest fails), "bad_json" (the body is
\* not the JSON expected), "no_bans" (an empty map) or "bans", avatar says whether
\* the image was fetched and decoded
Outcome(summary, bans, friends, sourcebans, avatar) ==
    [summary |-> summary, bans |-> bans, friends |-> friends, sourcebans |-> sourcebans,
     avatar |-> avatar]

\* the outcomes a unit is run with: one for each way through the closure
Outcomes ==
    {Outcome("err", "ok", "Ok", "bans", TRUE),
     Outcome("empty", "ok", "Ok", "bans", TRUE),
     Outcome("public", "err", "Ok", "bans", TRUE),
     Outcome("public", "empty", "Ok", "bans", TRUE),
     Outcome("public", "ok", "Ok", "bans", TRUE),
     Outcome("public", "ok", "Ok", "bad_json", TRUE),
     Outcome("private", "ok", "Ok", "request_err", FALSE)}

\* the result of running the closure of a unit: the fetches made, the tuples given to
\* response_s.send, and the panic that ends it ("" when it returns)
UnitResult(fetched, send, panic) == [fetched |-> fetched, send |-> send, panic |-> panic]

\* // Friends
FriendsOf(o) == IF o.summary = "public" THEN o.friends ELSE "None"

FriendsFetch(o) == IF o.summary = "public" THEN <<"friends">> ELSE <<>>

\* // SteamHistory
SourcebansOf(o, sh_key) == IF sh_key # "" /\ o.sourcebans = "bans" THEN "Some" ELSE "None"

SourcebansFetch(sh_key) == IF sh_key # "" THEN <<"sourcebans">> ELSE <<>>

\* the closure of a unit that looks at the result of the ban-history fetch only
\* after the friends fetch
RunClosureBansChecks(o, sh_key, steamid) ==
    IF o.summary = "err"
    THEN UnitResult(<<"summary">>, <<Response(ErrInfo, FALSE, steamid)>>, "")
    ELSE IF o.summary = "empty"
    THEN UnitResult(<<"summary">>, <<Response(NoInfo, FALSE, steamid)>>, "remove")
    ELSE IF o.bans = "err"
    THEN UnitResult(<<"summary", "bans">> \o FriendsFetch(o),
                    <<Response(ErrInfo, FALSE, steamid)>>, "")
    ELSE IF o.bans = "empty"
    THEN UnitResult(<<"summary", "bans">>, <<Response(NoInfo, FALSE, steamid)>>, "remove")
    ELSE IF sh_key # "" /\ o.sourcebans = "bad_json"
    THEN UnitResult(<<"summary", "bans">> \o FriendsFetch(o) \o <<"sourcebans">>, <<>>, "json")
    ELSE UnitResult(<<"summary", "bans">> \o FriendsFetch(o) \o SourcebansFetch(sh_key)
                        \o <<"avatar">>,
                    <<Response(AccountInfo(FriendsOf(o), SourcebansOf(o, sh_key)),
                               o.avatar, steamid)>>,
                    "")

\* the closure of a unit, from // Summary to the last send
RunClosure(o, sh_key, steamid) ==
    IF o.summary = "err"
    THEN UnitResult(<<"summary">>, <<Response(ErrInfo, FALSE, steamid)>>, "")
    ELSE IF o.summary = "empty"
    THEN UnitResult(<<"summary">>, <<Response(NoInfo, FALSE, steamid)>>, "remove")
    ELSE IF o.bans = "err"
    THEN UnitResult(<<"summary", "bans">>, <<Response(ErrInfo, FALSE, steamid)>>, "")
    ELSE IF o.bans = "empty"
    THEN UnitResult(<<"summary", "bans">>, <<Response(NoInfo, FALSE, steamid)>>, "remove")
    ELSE IF sh_key # "" /\ o.sourcebans = "bad_json"
    THEN UnitResult(<<"summary", "bans">> \o FriendsFetch(o) \o <<"sourcebans">>, <<>>, "json")
    ELSE UnitResult(<<"summary", "bans">> \o FriendsFetch(o) \o SourcebansFetch(sh_key)
                        \o <<"avatar">>,
                    <<Response(AccountInfo(FriendsOf(o), SourcebansOf(o, sh_key)),
                               o.avatar, steamid)>>,
                    "")

\* response_s.send(..).unwrap() for the tuples of r, then the end of the closure: a
\* send fails when the Receiver of the response queue was dropped, and unwrap panics
Deliver(api, u, r) ==
    IF r.send # <<>> /\ ~api.response_receiver
    THEN [api EXCEPT !.units[u].pc = "panicked", !.units[u].cause = "send"]
    ELSE [api EXCEPT !.response_q = @ \o r.send,
                     !.units[u].sent = [i \in 1..Len(r.send) |-> r.send[i].steamid],
                     !.units[u].pc = IF r.panic = "" THEN "done" ELSE "panicked",
                     !.units[u].cause = r.panic]

\* a player of the server that no response was handled for
ServerPlayer(n) ==
    [steamid32 |-> Sid32[n], steamid64 |-> Sid64[n], account_info |-> NoInfo,
     profile_image |-> FALSE]

\* the players of the accounts S, by steamid32
ServerPlayers(S) == [k \in {Sid32[n] : n \in S} |-> ServerPlayer(CHOOSE n \in S : Sid32[n] = k)]

\* "Apply" has replaced state.steamapi_request_sender and not yet
\* state.steamapi_request_receiver
MidApply == Len(apis) > 1 /\ apis[Len(apis) - 1].response_receiver

ApiInit ==
    /\ steamapi_key \in ApiKeys
    /\ steamhistory_key \in ApiKeys
    /\ server_players \in {ServerPlayers(S) : S \in SUBSET ApiAccounts}
    /\ apis = <<NewApi(steamapi_key, steamhistory_key)>>
    /\ nreq = 0

\* state.steamapi_request_sender.send(id).ok() for each id of ids, in their order
RECURSIVE SendAll(_, _)
SendAll(q, ids) == IF Len(ids) = 0 THEN q ELSE SendAll(Append(q, ids[1]), Tail(ids))

\* the pending_lookup lists the control loop is run with
RECURSIVE PendingLookups(_)
PendingLookups(len) ==
    IF len = 0 THEN {<<>>}
    ELSE {Append(q, Sid64[n]) : q \in PendingLookups(len - 1), n \in ApiAccounts}

\* "Send steamid requests if an API key is set" of TF2BotKicker::update: the list is
\* cleared when the key is empty, and its elements are popped, last first, and sent
SendPendingLookups(pending_lookup) ==
    /\ ~MidApply
    /\ steamapi_key # ""
    /\ nreq + Len(pending_lookup) <= MaxRequests
    /\ apis' = [apis EXCEPT ![Cur].request_q = SendAll(@, Reverse(pending_lookup))]
    /\ nreq' = nreq + Len(pending_lookup)
    /\ UNCHANGED <<steamapi_key, steamhistory_key, server_players, notApi>>

\* UserAction::GetProfile of the player list
GetProfile(steamid) ==
    /\ ~MidApply
    /\ nreq < MaxRequests
    /\ apis' = [apis EXCEPT ![Cur].request_q = SendAll(@, <<steamid>>)]
    /\ nreq' = nreq + 1
    /\ UNCHANGED <<steamapi_key, steamhistory_key, server_players, notApi>>

\* the sequences that hold every element of S once
RECURSIVE SendOrders(_)
SendOrders(S) ==
    IF S = {} THEN {<<>>}
    ELSE UNION {{<<x>> \o rest : rest \in SendOrders(S \ {x})} : x \in S}

\* the ids of p.steamid64 for the players of keys, in their order
SteamIds64(pm, keys) == [i \in 1..Len(keys) |-> pm[keys[i]].steamid64]

\* the "Apply" button of create_set_api_key_window, up to the assignment of
\* state.steamapi_request_sender: the keys are stored, create_api_thread makes the
\* channels and the worker of a new thread, and the old Sender is dropped
ApplyApiKey(key, sh_key) ==
    /\ ~MidApply
    /\ Len(apis) <= MaxApply
    /\ nreq + Cardinality(DOMAIN server_players) <= MaxRequests
    /\ steamapi_key' = key
    /\ steamhistory_key' = sh_key
    /\ apis' = Append([apis EXCEPT ![Cur].request_sender = FALSE], NewApi(key, sh_key))
    /\ UNCHANGED <<server_players, nreq, notApi>>

\* the rest of "Apply": the assignment of state.steamapi_request_receiver drops the old
\* Receiver, and every player of the server is requested from the new thread, in the
\* order of get_players().values()
ApplyApiKeySend(order) ==
    /\ MidApply
    /\ apis' = [apis EXCEPT ![Cur - 1].response_receiver = FALSE,
                            ![Cur - 1].response_q = <<>>,
                            ![Cur].request_q = SendAll(@, SteamIds64(server_players, order))]
    /\ nreq' = nreq + Len(order)
    /\ UNCHANGED <<steamapi_key, steamhistory_key, server_players, notApi>>

\* Server::get_player_mut(&steamid_64_to_32(&steamid).unwrap_or_default()) finds the
\* player with this key
PlayerKey(steamid) == IF FriendId32(steamid).ok THEN FriendId32(steamid).val ELSE <<>>

\* the body of a loop that keeps the account_info a player has got when the response
\* holds none
HandleResponseKeepsData(pm, r) ==
    IF PlayerKey(r.steamid) \in DOMAIN pm
    THEN IF r.info.tag # "Ok" /\ pm[PlayerKey(r.steamid)].account_info.tag = "Ok"
         THEN pm
         ELSE [pm EXCEPT ![PlayerKey(r.steamid)].account_info = r.info,
                         ![PlayerKey(r.steamid)].profile_image = r.img]
    ELSE pm

\* the body of the try_recv loop: the players after one response
HandleResponse(pm, r) ==
    IF PlayerKey(r.steamid) \in DOMAIN pm
    THEN [pm EXCEPT ![PlayerKey(r.steamid)].account_info = r.info,
                    ![PlayerKey(r.steamid)].profile_image = r.img]
    ELSE pm

\* the try_recv loop that gives every response to the first player of the server
HandleResponsesFirstPlayer(pm, q) ==
    IF q = <<>> \/ DOMAIN pm = {} THEN pm
    ELSE LET k == CHOOSE k \in DOMAIN pm : \A j \in DOMAIN pm : AccountOf(k) <= AccountOf(j)
         IN  [pm EXCEPT ![k].account_info = q[Len(q)].info, ![k].profile_image = q[Len(q)].img]

\* while let Ok((info, img, steamid)) = try_recv() { ... } over the responses q
RECURSIVE HandleResponseQueue(_, _)
HandleResponseQueue(pm, q) ==
    IF q = <<>> THEN pm ELSE HandleResponseQueue(HandleResponse(pm, q[1]), Tail(q))

\* "Handle finished steamid requests" of TF2BotKicker::update
HandleResponses ==
    /\ ~MidApply
    /\ apis[Cur].response_q # <<>>
    /\ server_players' = HandleResponseQueue(server_players, apis[Cur].response_q)
    /\ apis' = [apis EXCEPT ![Cur].response_q = <<>>]
    /\ UNCHANGED <<steamapi_key, steamhistory_key, nreq, notApi>>

\* request_r.recv() gives a request: the worker spawns a unit for it
WorkerSpawn(g) ==
    /\ g \in 1..Len(apis)
    /\ apis[g].worker = "recv"
    /\ apis[g].request_q # <<>>
    /\ apis' = [apis EXCEPT ![g].request_q = Tail(@),
                            ![g].units = Append(@, NewUnit(Head(apis[g].request_q)))]
    /\ UNCHANGED <<steamapi_key, steamhistory_key, server_players, nreq, notApi>>

\* request_r.recv() gives Err (the queue is empty and its Sender dropped): break
WorkerBreak(g) ==
    /\ g \in 1..Len(apis)
    /\ apis[g].worker = "recv"
    /\ apis[g].request_q = <<>>
    /\ ~apis[g].request_sender
    /\ apis' = [apis EXCEPT ![g].worker = "joining"]
    /\ UNCHANGED <<steamapi_key, steamhistory_key, server_players, nreq, notApi>>

\* the end of thread::scope: every unit is joined, and the scope panics when one of
\* them panicked
WorkerJoin(g) ==
    /\ g \in 1..Len(apis)
    /\ apis[g].worker = "joining"
    /\ \A u \in 1..Len(apis[g].units) : ~UnitRunning(apis[g].units[u])
    /\ apis' = [apis EXCEPT ![g].worker =
                   IF \E u \in 1..Len(apis[g].units) : apis[g].units[u].pc = "panicked"
                   THEN "panicked" ELSE "exited"]
    /\ UNCHANGED <<steamapi_key, steamhistory_key, server_players, nreq, notApi>>

\* a unit runs: its fetches come to o
RunUnit(g, u, o) ==
    /\ g \in 1..Len(apis)
    /\ u \in 1..Len(apis[g].units)
    /\ apis[g].units[u].pc = "running"
    /\ apis' = [apis EXCEPT ![g] =
                   Deliver(@, u, RunClosure(o, @.sh_key, @.units[u].steamid))]
    /\ UNCHANGED <<steamapi_key, steamhistory_key, server_players, nreq, notApi>>

Gens == 1..(MaxApply + 1)

UnitIds == 1..MaxRequests

ApiNext ==
    \/ \E len \in 1..MaxRequests : \E pending_lookup \in PendingLookups(len) :
           SendPendingLookups(pending_lookup)
    \/ \E steamid \in {Sid64[n] : n \in ApiAccounts} : GetProfile(steamid)
    \/ \E key \in ApiKeys, sh_key \in ApiKeys : ApplyApiKey(key, sh_key)
    \/ \E order \in SendOrders(DOMAIN server_players) : ApplyApiKeySend(order)
    \/ HandleResponses
    \/ \E g \in Gens : WorkerSpawn(g)
    \/ \E g \in Gens : WorkerBreak(g)
    \/ \E g \in Gens : WorkerJoin(g)
    \/ \E g \in Gens, u \in UnitIds, o \in Outcomes : RunUnit(g, u, o)

\* ------------------------------------------------------------------------
\* One unit on its own: the closure run for every result of its fetches
\* ------------------------------------------------------------------------

\* every combination of what the five fetches can come to
AllOutcomes ==
    [summary : {"err", "empty", "public", "private"}, bans : {"err", "empty", "ok"},
     friends : {"Ok", "Err"}, sourcebans : {"request_err", "bad_json", "no_bans", "bans"},
     avatar : BOOLEAN]

NotRun == [ran |-> FALSE]

UnitInit ==
    /\ unit_in \in [o : AllOutcomes, sh_key : ApiKeys, steamid : {Sid64[n] : n \in ApiAccounts}]
    /\ unit_out = NotRun

\* the closure of the unit runs, the receiver of the response queue being there
RunUnitClosure ==
    /\ ~unit_out.ran
    /\ unit_out' = [ran |-> TRUE,
                    result |-> RunClosure(unit_in.o, unit_in.sh_key, unit_in.steamid)]
    /\ UNCHANGED <<unit_in, notUnit>>

UnitNext == RunUnitClosure

\* ------------------------------------------------------------------------
\* The name patterns of PlayerChecker: read_regex_list, save_regex and
\* check_player_name
\*
\* A pattern is kept as its source text (Regex::as_str). The patterns modelled are
\* those of literal characters, '.', '*' and parentheses.
\* ------------------------------------------------------------------------

\* char::is_whitespace, the characters str::trim removes: the property White_Space
IsWhitespace(c) ==
    c \in {" ", "\t", "\n", "\r", "\f", "U+000B", "U+0085", "U+00A0", "U+1680",
           "U+2000", "U+2001", "U+2002", "U+2003", "U+2004", "U+2005", "U+2006",
           "U+2007", "U+2008", "U+2009", "U+200A", "U+2028", "U+2029", "U+202F",
           "U+205F", "U+3000"}

\* str::lines: the text is split at "\n", a "\r" just before it is dropped, and the
\* text after the last "\n" is a line when it is not empty
RECURSIVE LinesFrom(_, _, _, _)
LinesFrom(s, i, cur, out) ==
    IF i > Len(s) THEN (IF cur = <<>> THEN out ELSE Append(out, cur))
    ELSE IF s[i] = "\n"
         THEN LinesFrom(s, i + 1, <<>>,
                  Append(out, IF cur # <<>> /\ cur[Len(cur)] = "\r"
                              THEN SubSeq(cur, 1, Len(cur) - 1) ELSE cur))
         ELSE LinesFrom(s, i + 1, Append(cur, s[i]), out)

Lines(s) == LinesFrom(s, 1, <<>>, <<>>)

\* str::trim
RECURSIVE TrimStart(_)
TrimStart(s) == IF s # <<>> /\ IsWhitespace(s[1]) THEN TrimStart(Tail(s)) ELSE s

RECURSIVE TrimEnd(_)
TrimEnd(s) ==
    IF s # <<>> /\ IsWhitespace(s[Len(s)]) THEN TrimEnd(SubSeq(s, 1, Len(s) - 1)) ELSE s

Trim(s) == TrimEnd(TrimStart(s))

\* the parser of Regex::new on the text from position i, inside `depth` open groups,
\* `canRepeat` saying whether there is an expression for a '*' to repeat: a '*' with
\* nothing to repeat, a ')' without its '(' and a '(' never closed are errors
RECURSIVE RegexParses(_, _, _, _)
RegexParses(txt, i, depth, canRepeat) ==
    IF i > Len(txt) THEN depth = 0
    ELSE CASE txt[i] = "(" -> RegexParses(txt, i + 1, depth + 1, FALSE)
           [] txt[i] = ")" -> depth > 0 /\ RegexParses(txt, i + 1, depth - 1, TRUE)
           [] txt[i] = "*" -> canRepeat /\ RegexParses(txt, i + 1, depth, TRUE)
           [] OTHER -> RegexParses(txt, i + 1, depth, TRUE)

\* Regex::new(txt) is Ok
RegexNewOk(txt) == RegexParses(txt, 1, 0, FALSE)

\* the body of the loop of read_regex_list: list after one line of the file
ReadRegexLine(list, line) ==
    IF Trim(line) = <<>> THEN list
    ELSE IF RegexNewOk(Trim(line)) THEN Append(list, Trim(line))
    ELSE list

\* read_regex_list whose loop stops at the first line that does not compile
RECURSIVE ReadRegexLinesStopAtError(_, _)
ReadRegexLinesStopAtError(list, lines) ==
    IF lines = <<>> THEN list
    ELSE IF Trim(lines[1]) # <<>> /\ ~RegexNewOk(Trim(lines[1])) THEN list
    ELSE ReadRegexLinesStopAtError(ReadRegexLine(list, lines[1]), Tail(lines))

\* for line in contents.lines() { ... }
RECURSIVE ReadRegexLines(_, _)
ReadRegexLines(list, lines) ==
    IF lines = <<>> THEN list
    ELSE ReadRegexLines(ReadRegexLine(list, lines[1]), Tail(lines))

\* read_regex_list after the file was read: self.bots_regx.append(&mut list)
read_regex_list(regx, contents) == regx \o ReadRegexLines(<<>>, Lines(contents))

\* A file is a sequence of bytes, numbers from 0 to 255; a text is a sequence of
\* characters, and the two are related by UTF-8.
\*
\* the printable characters of ASCII, from the space (32) to the tilde (126); the
\* grave accent (96) is written as its code point
AsciiPrintable ==
    <<" ", "!", "\"", "#", "$", "%", "&", "'", "(", ")", "*", "+", ",", "-", ".", "/",
      "0", "1", "2", "3", "4", "5", "6", "7", "8", "9", ":", ";", "<", "=", ">", "?",
      "@", "A", "B", "C", "D", "E", "F", "G", "H", "I", "J", "K", "L", "M", "N", "O",
      "P", "Q", "R", "S", "T", "U", "V", "W", "X", "Y", "Z", "[", "\\", "]", "^", "_",
      "U+0060", "a", "b", "c", "d", "e", "f", "g", "h", "i", "j", "k", "l", "m", "n", "o",
      "p", "q", "r", "s", "t", "u", "v", "w", "x", "y", "z", "{", "|", "}", "~">>

HexDigitChars ==
    <<"0", "1", "2", "3", "4", "5", "6", "7", "8", "9", "A", "B", "C", "D", "E", "F">>

\* the number written in hexadecimal in the name c of a code point from position i on
RECURSIVE HexNumber(_, _, _)
HexNumber(c, i, acc) ==
    IF i > Len(c) THEN acc
    ELSE HexNumber(c, i + 1,
                   16 * acc + (CHOOSE d \in 0..15 : HexDigitChars[d + 1] = SubSeq(c, i, i)))

\* the n in hexadecimal, in at least `width` digits
RECURSIVE HexText(_, _)
HexText(n, width) ==
    IF n = 0 /\ width <= 0 THEN ""
    ELSE HexText(n \div 16, width - 1) \o HexDigitChars[(n % 16) + 1]

\* the code point of a character
CodePoint(c) ==
    IF c = "\t" THEN 9
    ELSE IF c = "\n" THEN 10
    ELSE IF c = "\f" THEN 12
    ELSE IF c = "\r" THEN 13
    ELSE IF \E i \in 1..Len(AsciiPrintable) : AsciiPrintable[i] = c
    THEN 31 + (CHOOSE i \in 1..Len(AsciiPrintable) : AsciiPrintable[i] = c)
    ELSE HexNumber(c, 3, 0)

\* the character of a code point
CharOf(n) ==
    IF n = 9 THEN "\t"
    ELSE IF n = 10 THEN "\n"
    ELSE IF n = 12 THEN "\f"
    ELSE IF n = 13 THEN "\r"
    ELSE IF n >= 32 /\ n <= 126 THEN AsciiPrintable[n - 31]
    ELSE "U+" \o HexText(n, 4)

\* the bytes of a code point in UTF-8
Utf8(n) ==
    IF n < 128 THEN <<n>>
    ELSE IF n < 2048 THEN <<192 + (n \div 64), 128 + (n % 64)>>
    ELSE IF n < 65536
    THEN <<224 + (n \div 4096), 128 + ((n \div 64) % 64), 128 + (n % 64)>>
    ELSE <<240 + (n \div 262144), 128 + ((n \div 4096) % 64), 128 + ((n \div 64) % 64),
           128 + (n % 64)>>

\* str::as_bytes: the bytes of a text
RECURSIVE as_bytes(_)
as_bytes(s) == IF s = <<>> THEN <<>> ELSE Utf8(CodePoint(s[1])) \o as_bytes(Tail(s))

IsContinuation(b, i) == i <= Len(b) /\ b[i] >= 128 /\ b[i] <= 191

\* the code point that the bytes encode at position i and the number of its bytes, 0
\* when they are not the UTF-8 of a character: a stray or missing continuation byte, an
\* encoding longer than needed, a surrogate or a number above U+10FFFF
DecodeAt(b, i) ==
    IF b[i] < 128 THEN [len |-> 1, cp |-> b[i]]
    ELSE IF b[i] >= 194 /\ b[i] <= 223 /\ IsContinuation(b, i + 1)
    THEN [len |-> 2, cp |-> 64 * (b[i] - 192) + (b[i + 1] - 128)]
    ELSE IF b[i] >= 224 /\ b[i] <= 239 /\ IsContinuation(b, i + 1) /\ IsContinuation(b, i + 2)
    THEN LET cp == 4096 * (b[i] - 224) + 64 * (b[i + 1] - 128) + (b[i + 2] - 128)
         IN  IF cp < 2048 \/ (cp >= 55296 /\ cp <= 57343) THEN [len |-> 0, cp |-> 0]
             ELSE [len |-> 3, cp |-> cp]
    ELSE IF /\ b[i] >= 240 /\ b[i] <= 244
            /\ IsContinuation(b, i + 1) /\ IsContinuation(b, i + 2) /\ IsContinuation(b, i + 3)
    THEN LET cp == 262144 * (b[i] - 240) + 4096 * (b[i + 1] - 128) + 64 * (b[i + 2] - 128)
                   + (b[i + 3] - 128)
         IN  IF cp < 65536 \/ cp > 1114111 THEN [len |-> 0, cp |-> 0]
             ELSE [len |-> 4, cp |-> cp]
    ELSE [len |-> 0, cp |-> 0]

\* file.read_to_string(&mut contents): the text of the bytes, an error when the bytes
\* are not UTF-8 (contents then stays as it was)
RECURSIVE ReadToStringFrom(_, _, _)
ReadToStringFrom(b, i, out) ==
    IF i > Len(b) THEN [ok |-> TRUE, val |-> out]
    ELSE LET d == DecodeAt(b, i)
         IN  IF d.len = 0 THEN [ok |-> FALSE, val |-> <<>>]
             ELSE ReadToStringFrom(b, i + d.len, Append(out, CharOf(d.cp)))

read_to_string(b) == ReadToStringFrom(b, 1, <<>>)

\* the bytes save_regex writes: r.as_str().as_bytes() and "\n".as_bytes() for each
\* pattern
RECURSIVE RegexBytes(_)
RegexBytes(regx) ==
    IF regx = <<>> THEN <<>>
    ELSE as_bytes(regx[1]) \o as_bytes(<<"\n">>) \o RegexBytes(Tail(regx))

\* the file after save_regex: it is opened with write(true), append(false) and
\* create(true), without truncate, so the bytes are written over the start of the
\* bytes it had and what it held beyond them stays
save_regex(old, regx) ==
    RegexBytes(regx) \o SubSeq(old, Len(RegexBytes(regx)) + 1, Len(old))

\* '.' matches every character but "\n", another character matches itself
AtomMatches(a, c) == IF a = "." THEN c # "\n" ELSE a = c

\* the position of the ')' that closes the group whose '(' is before position i, with
\* `depth` groups opened since
RECURSIVE GroupClose(_, _, _)
GroupClose(txt, i, depth) ==
    IF txt[i] = "(" THEN GroupClose(txt, i + 1, depth + 1)
    ELSE IF txt[i] = ")" THEN (IF depth = 0 THEN i ELSE GroupClose(txt, i + 1, depth - 1))
    ELSE GroupClose(txt, i + 1, depth)

\* the first position from i on that does not hold a '*'
RECURSIVE StarsEnd(_, _)
StarsEnd(txt, i) == IF i <= Len(txt) /\ txt[i] = "*" THEN StarsEnd(txt, i + 1) ELSE i

\* Matching, by the positions of name a match can stand at (position p: the characters
\* before name[p] are consumed). RegexMatchAt gives the positions after txt[i..stop]
\* has matched from one of the positions of from; MatchAtom does so for the one
\* expression txt[i..e], a character or a group; MatchStar for any number of them.
RECURSIVE RegexMatchAt(_, _, _, _, _)
RECURSIVE MatchAtom(_, _, _, _, _)
RECURSIVE MatchStar(_, _, _, _, _)
MatchAtom(txt, i, e, name, from) ==
    IF txt[i] = "(" THEN RegexMatchAt(txt, i + 1, e - 1, name, from)
    ELSE {p + 1 : p \in {q \in from : q <= Len(name) /\ AtomMatches(txt[i], name[q])}}

MatchStar(txt, i, e, name, from) ==
    LET more == from \cup MatchAtom(txt, i, e, name, from)
    IN  IF more = from THEN from ELSE MatchStar(txt, i, e, name, more)

RegexMatchAt(txt, i, stop, name, from) ==
    IF i > stop \/ from = {} THEN from
    ELSE LET e == IF txt[i] = "(" THEN GroupClose(txt, i + 1, 0) ELSE i
             k == IF StarsEnd(txt, e + 1) > stop THEN stop + 1 ELSE StarsEnd(txt, e + 1)
         IN  RegexMatchAt(txt, k, stop, name,
                          IF k > e + 1 THEN MatchStar(txt, i, e, name, from)
                          ELSE MatchAtom(txt, i, e, name, from))

\* regx.captures(name).is_some(): the pattern matches somewhere in name
RegexIsMatch(txt, name) ==
    RegexMatchAt(txt, 1, Len(txt), name, 1..(Len(name) + 1)) # {}

NoRegex == [some |-> FALSE]

SomeRegex(index, regx) == [some |-> TRUE, index |-> index, regx |-> regx]

\* check_player_name that returns the last pattern that matches
check_player_name_last(regx, name) ==
    LET hits == {i \in 1..Len(regx) : RegexIsMatch(regx[i], name)}
    IN  IF hits = {} THEN NoRegex
        ELSE SomeRegex(CHOOSE i \in hits : \A j \in hits : j <= i,
                       regx[CHOOSE i \in hits : \A j \in hits : j <= i])

\* self.bots_regx.iter().find(|&regx| regx.captures(name).is_some()), from index i on
RECURSIVE FindRegex(_, _, _)
FindRegex(regx, name, i) ==
    IF i > Len(regx) THEN NoRegex
    ELSE IF RegexIsMatch(regx[i], name) THEN SomeRegex(i, regx[i])
    ELSE FindRegex(regx, name, i + 1)

check_player_name(regx, name) == FindRegex(regx, name, 1)

\* ------------------------------------------------------------------------
\* Pattern files and names
\* ------------------------------------------------------------------------

\* a*          Scenario E: three lines, the second does not compile
\* (
\* b
FileScenarioE == <<"a", "*", "\n", "(", "\n", "b">>

\* lines to trim, blank lines and a pattern twice
FileBlanksAndDuplicates == <<" ", "a", " ", "\n", "\n", " ", "\t", "\n", "a", "\n">>

\* "\r\n" line ends, a '*' with nothing to repeat, a ')' without '('
FileCrLf == <<"*", "a", "\r", "\n", ".", "b", "\r", "\n", "b", ")", "\r", "\n">>

FileEmpty == <<>>

\* one long line that matches every name with "ab" in it
FileLong == <<"a", "b", ".", "*", ".", "*", "\n">>

\* a line holding a form feed alone, and a group that is repeated
FileGroups == <<"\f", "\n", "(", "a", ")", "*", "b", "\n">>

PatternFiles ==
    {FileScenarioE, FileBlanksAndDuplicates, FileCrLf, FileEmpty, FileLong, FileGroups}

\* what cfg/regx.txt holds before the program first writes it: nothing, three
\* patterns, a line that does not compile before a pattern, and the same with a pattern
\* of one character of two bytes
InitialRegexFiles ==
    {as_bytes(t) : t \in {<<>>, <<"b", "b", "*", "\n", "a", "\n", "b", "\n">>,
                          <<"(", "\n", "a", "b", "\n">>, <<"(", "\n", "U+00E9", "\n">>}}

PlayerNames == {<<>>, <<"a">>, <<"b">>, <<"a", "b">>, <<"b", "a">>, <<"c", "a", "b">>}

\* the record stores the pattern operations are run beside
RegexStores == {EmptyMap, MapInsert(EmptyMap, Id5, PlayerRecord(Id5, "Bot", "seen"))}

\* ------------------------------------------------------------------------
\* The pattern operations as actions
\* ------------------------------------------------------------------------

MaxRegexOps == 3

NoRegexLast ==
    [op |-> "none", contents |-> <<>>, name |-> <<>>, result |-> NoRegex,
     pre_regx |-> <<>>, pre_file |-> <<>>, pre_players |-> EmptyMap,
     pre_external |-> EmptyMap, file |-> "ok", err |-> FALSE]

RegexPre(op) ==
    [NoRegexLast EXCEPT !.op = op, !.pre_regx = bots_regx, !.pre_file = regx_file,
                        !.pre_players = players, !.pre_external = external_players]

RegexInit ==
    /\ bots_regx = <<>>
    /\ regx_file \in InitialRegexFiles
    /\ rlast = NoRegexLast
    /\ nrops = 0

\* read_regex_list(filename), the file holding contents
ReadRegexList(contents) ==
    /\ nrops < MaxRegexOps
    /\ bots_regx' = read_regex_list(bots_regx, contents)
    /\ rlast' = [RegexPre("importPatternFile") EXCEPT !.contents = contents]
    /\ nrops' = nrops + 1
    /\ UNCHANGED <<regx_file, notRegex>>

\* save_regex(REGEX_LIST), every write succeeding
SaveRegex ==
    /\ nrops < MaxRegexOps
    /\ regx_file' = save_regex(regx_file, bots_regx)
    /\ rlast' = RegexPre("exportPatterns")
    /\ nrops' = nrops + 1
    /\ UNCHANGED <<bots_regx, notRegex>>

\* check_player_name(name)
CheckPlayerName(name) ==
    /\ nrops < MaxRegexOps
    /\ rlast' = [RegexPre("classifyByName") EXCEPT
                    !.name = name, !.result = check_player_name(bots_regx, name)]
    /\ nrops' = nrops + 1
    /\ UNCHANGED <<bots_regx, regx_file, notRegex>>

\* read_regex_list of the file save_regex writes: read_to_string fails on bytes that
\* are no UTF-8, and read_regex_list returns the error with the list as it was
ReadRegexFile ==
    \E r \in {read_to_string(regx_file)} :
        IF r.ok THEN ReadRegexList(r.val)
        ELSE /\ nrops < MaxRegexOps
             /\ rlast' = [RegexPre("importPatternFile") EXCEPT !.err = TRUE]
             /\ nrops' = nrops + 1
             /\ UNCHANGED <<bots_regx, regx_file, notRegex>>

RegexNext ==
    \/ \E contents \in PatternFiles : ReadRegexList(contents)
    \/ ReadRegexFile
    \/ SaveRegex
    \/ \E name \in PlayerNames : CheckPlayerName(name)

\* ------------------------------------------------------------------------
\* Parties::get_player_party_indicator (parties.rs)
\* ------------------------------------------------------------------------

\* COLOR_PALETTE, each colour as its <<r, g, b>>
COLOR_PALETTE ==
    << <<230, 25, 75>>, <<60, 180, 75>>, <<255, 225, 25>>, <<0, 130, 200>>,
       <<245, 130, 48>>, <<145, 30, 180>>, <<70, 240, 240>>, <<240, 50, 230>>,
       <<210, 245, 60>>, <<250, 190, 212>>, <<0, 128, 128>>, <<220, 190, 255>>,
       <<170, 110, 40>>, <<255, 250, 200>>, <<128, 0, 0>>, <<170, 255, 195>>,
       <<128, 128, 0>>, <<255, 215, 180>>, <<0, 0, 128>>, <<128, 128, 128>>,
       <<255, 255, 255>> >>

\* INDICATOR_SYMBOLS, each char by its name
INDICATOR_SYMBOLS == <<"square", "star", "triangle", "diamond">>

NoIndicator == [tag |-> "None"]

SomeIndicator(symbol, color) == [tag |-> "Some", symbol |-> symbol, color |-> color]

\* an index past the end of INDICATOR_SYMBOLS
IndicatorPanic == [tag |-> "panic"]

\* self.parties.iter().position(|party| party.contains(&p.steamid32)): the index, from
\* 0, of the first party that holds the player, -1 for None
PartyPosition(ps, steamid32) ==
    IF \E i \in 1..Len(ps) : steamid32 \in ps[i]
    THEN (CHOOSE i \in 1..Len(ps) :
              steamid32 \in ps[i] /\ \A j \in 1..(i - 1) : steamid32 \notin ps[j]) - 1
    ELSE -1

\* Parties::get_player_party_indicator(&self, p) with self.parties = ps and
\* p.steamid32 = steamid32
get_player_party_indicator(ps, steamid32) ==
    IF PartyPosition(ps, steamid32) < 0 THEN NoIndicator
    ELSE LET ind == PartyPosition(ps, steamid32)
         IN  IF ind \div Len(COLOR_PALETTE) >= Len(INDICATOR_SYMBOLS) THEN IndicatorPanic
             ELSE SomeIndicator(INDICATOR_SYMBOLS[(ind \div Len(COLOR_PALETTE)) + 1],
                                COLOR_PALETTE[(ind % Len(COLOR_PALETTE)) + 1])

\* most parties on a server
MaxParties == 23

\* the steamid32 of account n, for the accounts of a full server
PartySid32(n) == U1Prefix \o ToChars(NatDigits(n))

\* a server of n pairs of friends and one more player: the players, the graph with one
\* edge per pair, and the parties find_parties leaves
PairPlayers(n) == [i \in 1..(2 * n + 1) |-> PartySid32(i)]

PairGraph(n) == [nodes |-> PairPlayers(n), edges |-> [i \in 1..n |-> <<2 * i - 1, 2 * i>>]]

PairParties(n) ==
    [i \in 1..n |-> {PartySid32(2 * (n + 1 - i) - 1), PartySid32(2 * (n + 1 - i))}]

NoAsk == [valid |-> FALSE, steamid32 |-> <<>>, result |-> NoIndicator]

\* no indicator was asked for
IndicatorIdle == asked = NoAsk

\* the detector after its update on a server of pairs of friends
IndicatorInit ==
    /\ \E n \in 0..MaxParties :
        /\ p_players = PairPlayers(n)
        /\ graph = PairGraph(n)
        /\ parties = PairParties(n)
    /\ player_map = <<>>
    /\ party_panic = ""
    /\ snap = NoSnap
    /\ asked = NoAsk

\* most parties of the servers the indicator is looked at on its own for
MaxServerParties == 85

\* the detector after its update on a server of MaxServerParties pairs of friends, or of
\* one pair less
CrowdInit ==
    /\ \E n \in (MaxServerParties - 1)..MaxServerParties :
        /\ p_players = PairPlayers(n)
        /\ graph = PairGraph(n)
        /\ parties = PairParties(n)
    /\ player_map = <<>>
    /\ party_panic = ""
    /\ snap = NoSnap
    /\ asked = NoAsk

\* the players the list renders: those the detector knows and one it does not
IndicatorPlayers == {p_players[i] : i \in 1..Len(p_players)} \cup {PartySid32(0)}

\* one call of get_player_party_indicator by render_players_internal
GetPlayerPartyIndicator(steamid32) ==
    /\ asked' = [valid |-> TRUE, steamid32 |-> steamid32,
                 result |-> get_player_party_indicator(parties, steamid32)]
    /\ UNCHANGED <<partyVars, notIndicator>>

IndicatorNext == \E steamid32 \in IndicatorPlayers : GetPlayerPartyIndicator(steamid32)

\* ------------------------------------------------------------------------
\* The kicks and chat messages of the control loop and of the player list
\* (main.rs, gui.rs)
\* ------------------------------------------------------------------------

\* most requests given to state.io
MaxCommands == 3

\* the userids of the players of the server
UserIds == {"2", "3"}

\* the reasons of UserAction::Kick
KickReasons == {"cheating", "idle"}

\* IORequest::RunCommand(CommandManager::kick_player_command(userid, reason))
KickCommand(userid, reason) == [command |-> "callvote kick", userid |-> userid, reason |-> reason]

\* the request that sends a chat message
ChatCommand == [command |-> "say", userid |-> "", reason |-> ""]

\* state.io.send(request), recorded with the setting at that time
IoSend(sent, request) == Append(sent, [request |-> request, paused |-> paused])

\* Server::kick_players_of_type: a votekick on the first of the players of that type,
\* when there is one
KickPlayersOfType(sent, targets) ==
    IF targets = <<>> THEN sent ELSE IoSend(sent, KickCommand(targets[1], "cheating"))

\* Server::send_chat_messages: a chat message, when there is one to send
SendChatMessages(sent, has_message) == IF has_message THEN IoSend(sent, ChatCommand) ELSE sent

KickTargets == {<<>>} \cup {<<u>> : u \in UserIds}

\* Settings::new
CtlIdle ==
    /\ paused = FALSE
    /\ kick_bots = TRUE
    /\ kick_cheaters = FALSE
    /\ io_sent = <<>>

\* the settings as Settings::import reads them from the settings file
CtlInit ==
    /\ paused \in BOOLEAN
    /\ kick_bots \in BOOLEAN
    /\ kick_cheaters \in BOOLEAN
    /\ io_sent = <<>>

\* the checkbox "Pause actions" is clicked
TogglePaused ==
    /\ paused' = ~paused
    /\ UNCHANGED <<kick_bots, kick_cheaters, io_sent, notCtl>>

\* the checkbox "Kick Bots" is clicked
ToggleKickBots ==
    /\ kick_bots' = ~kick_bots
    /\ UNCHANGED <<paused, kick_cheaters, io_sent, notCtl>>

\* the checkbox "Kick Cheaters" is clicked
ToggleKickCheaters ==
    /\ kick_cheaters' = ~kick_cheaters
    /\ UNCHANGED <<paused, kick_bots, io_sent, notCtl>>

\* the requests after "Kick Bots and Cheaters" of TF2BotKicker::update with the timers
\* as kick_due and alert_due
KickBotsAndCheaters(sent, kick_due, alert_due, bots, cheaters, has_message) ==
    IF paused THEN sent
    ELSE LET after_bots == IF kick_due /\ kick_bots THEN KickPlayersOfType(sent, bots) ELSE sent
             after_cheaters == IF kick_due /\ kick_cheaters
                               THEN KickPlayersOfType(after_bots, cheaters) ELSE after_bots
         IN  IF alert_due THEN SendChatMessages(after_cheaters, has_message) ELSE after_cheaters

\* one pass of TF2BotKicker::update over "Kick Bots and Cheaters"
UpdateKicks(kick_due, alert_due, bots, cheaters, has_message) ==
    /\ Len(KickBotsAndCheaters(io_sent, kick_due, alert_due, bots, cheaters, has_message))
         <= MaxCommands
    /\ io_sent' = KickBotsAndCheaters(io_sent, kick_due, alert_due, bots, cheaters, has_message)
    /\ UNCHANGED <<paused, kick_bots, kick_cheaters, notCtl>>

\* UserAction::Kick(reason) of the player list on the player with this userid
UserActionKick(userid, reason) ==
    /\ Len(io_sent) < MaxCommands
    /\ io_sent' = IoSend(io_sent, KickCommand(userid, reason))
    /\ UNCHANGED <<paused, kick_bots, kick_cheaters, notCtl>>

CtlNext ==
    \/ TogglePaused
    \/ ToggleKickBots
    \/ ToggleKickCheaters
    \/ \E kick_due, alert_due, has_message \in BOOLEAN : \E bots, cheaters \in KickTargets :
           UpdateKicks(kick_due, alert_due, bots, cheaters, has_message)
    \/ \E userid \in UserIds : \E reason \in KickReasons : UserActionKick(userid, reason)

\* ------------------------------------------------------------------------
\* Rebuilds of the party detector on a roster that changes
\* ------------------------------------------------------------------------

RebuildAccounts == {1, 2, 3}

\* account_info of a player: none, or a friends list of no or one account
RebuildInfos ==
    {InfoNone} \cup {InfoOk(FriendsOk(l)) : l \in {<<>>} \cup {<<Sid64[n]>> : n \in RebuildAccounts}}

\* the rosters that can follow the roster pm: some players have left, or one player has
\* joined or has got another account_info
RosterChanges(pm) ==
    {[k \in S |-> pm[k]] : S \in SUBSET DOMAIN pm}
    \cup {[k \in DOMAIN pm \cup {Sid32[n]} |->
              IF k = Sid32[n] THEN Player(k, info) ELSE pm[k]] :
          n \in RebuildAccounts, info \in RebuildInfos}

NoPrev == [valid |-> FALSE, players |-> {}, parties |-> <<>>]

\* no rebuild is looked at
RebuildIdle == prev = NoPrev

\* Parties::new, on a server without players
RebuildInit ==
    /\ player_map = [k \in {} |-> Player(k, InfoNone)]
    /\ p_players = <<>>
    /\ graph = EmptyGraph
    /\ parties = <<>>
    /\ party_panic = ""
    /\ snap = NoSnap
    /\ prev = NoPrev

\* the roster becomes pm and Parties::update(pm) runs, the HashMap iterated in the order
\* `order`
Rebuild(pm, order) ==
    /\ party_panic = ""
    /\ player_map' = pm
    /\ \E b \in {BuildGraph(pm, order)} :
           /\ p_players' = order
           /\ graph' = b.graph
           /\ IF b.panic
              THEN party_panic' = "unwrap" /\ UNCHANGED parties
              ELSE \E pg \in {PartyGraph(order, b.graph)} :
                       IF Len(pg.edges) # 0
                       THEN party_panic' = "assert" /\ UNCHANGED parties
                       ELSE /\ parties' = FilterParties(pg.nodes)
                            /\ UNCHANGED party_panic
    /\ snap' = [valid |-> TRUE, pm |-> pm, order |-> order]
    /\ prev' = [valid |-> snap.valid, players |-> SeqToSet(p_players), parties |-> parties]
    /\ UNCHANGED notRebuild

RebuildNext ==
    \/ \E pm \in RosterChanges(player_map) : \E order \in IterationOrders(pm) : Rebuild(pm, order)
    \/ Clear

\* ------------------------------------------------------------------------
\* Round trips through the two conversions
\* ------------------------------------------------------------------------

\* most digits of an account number given to the conversions
MaxAccountDigits == 2

\* the account numbers as they are written: the digit strings of up to MaxAccountDigits
\* digits, leading zeros allowed
RECURSIVE AccountTexts(_)
AccountTexts(len) ==
    IF len = 0 THEN {<<>>}
    ELSE AccountTexts(len - 1)
         \cup {Append(t, d) : t \in {x \in AccountTexts(len - 1) : Len(x) = len - 1},
                              d \in {"0", "1", "5", "9"}}

\* the steamid32 texts U:<universe>:<digits>
Ids32 ==
    {<<"U", ":", u, ":">> \o t : u \in {"0", "1"}, t \in AccountTexts(MaxAccountDigits) \ {<<>>}}
    \cup {<<"[">> \o U1Prefix \o <<"5", "]">>, <<"[">> \o U1Prefix \o <<"5">>,
          U1Prefix \o <<"5", "]">>}

\* the steamid64 texts: those of the accounts above, the offset itself, a number below
\* the offset and one with a leading zero
Ids64 ==
    {steamid_32_to_64(U1Prefix \o t).val : t \in AccountTexts(MaxAccountDigits) \ {<<>>}}
    \cup {ToChars(OffsetDigits), ToChars(Append(Pop(OffsetDigits), 7)),
          <<"0">> \o ToChars(Append(Pop(OffsetDigits), 9))}

NoRoundTrip == [ran |-> FALSE, mid |-> ErrResult, back |-> ErrResult]

\* the second conversion, when the first gave a value
Then(r, to32) ==
    IF ~r.ok THEN ErrResult
    ELSE IF to32 THEN steamid_64_to_32(r.val) ELSE steamid_32_to_64(r.val)

CodecIdle ==
    /\ codec_in = [form |-> "SteamId32", text |-> U1Prefix \o <<"0">>]
    /\ codec_out = NoRoundTrip

CodecInit ==
    /\ codec_in \in [form : {"SteamId32"}, text : Ids32] \cup [form : {"SteamId64"}, text : Ids64]
    /\ codec_out = NoRoundTrip

\* steamid_64_to_32(steamid_32_to_64(x))
RoundTrip32 ==
    /\ codec_in.form = "SteamId32"
    /\ ~codec_out.ran
    /\ \E mid \in {steamid_32_to_64(codec_in.text)} :
           codec_out' = [ran |-> TRUE, mid |-> mid, back |-> Then(mid, TRUE)]
    /\ UNCHANGED <<codec_in, notCodec>>

\* steamid_32_to_64(steamid_64_to_32(y))
RoundTrip64 ==
    /\ codec_in.form = "SteamId64"
    /\ ~codec_out.ran
    /\ \E mid \in {steamid_64_to_32(codec_in.text)} :
           codec_out' = [ran |-> TRUE, mid |-> mid, back |-> Then(mid, FALSE)]
    /\ UNCHANGED <<codec_in, notCodec>>

CodecNext == RoundTrip32 \/ RoundTrip64

\* ------------------------------------------------------------------------
\* Specifications
\* ------------------------------------------------------------------------

\* the party detector before any roster was given to it
PartyIdle ==
    /\ player_map = <<>>
    /\ p_players = <<>>
    /\ graph = EmptyGraph
    /\ parties = <<>>
    /\ party_panic = ""
    /\ snap = NoSnap

\* ------------------------------------------------------------------------
\* The imports from their files: what the file system gives, and the Result returned
\* ------------------------------------------------------------------------

\* a file that cannot be opened, one whose bytes cannot be read as a String, one
\* whose text is no JSON, a file with its text, and a file with its JSON value
NoFile == [tag |-> "open"]

Unreadable == [tag |-> "read"]

Unparsable == [tag |-> "parse"]

TextFile(contents) == [tag |-> "ok", contents |-> contents]

JsonFile(json) == [tag |-> "ok", json |-> json]

\* Ok(()) and Err(e), with what self holds when the function returns
FileOk(val) == [err |-> FALSE, val |-> val]

FileErr(val) == [err |-> TRUE, val |-> val]

\* read_from_steamid_list: File::open(filename)?, file.read_to_string(&mut contents)?,
\* then read_from_steamid_list_string on the target map pl
read_from_steamid_list(pl, file, as_player_type, filename) ==
    IF file.tag = "open" THEN FileErr(pl)
    ELSE IF file.tag = "read" THEN FileErr(pl)
    ELSE FileOk(read_from_steamid_list_string(pl, file.contents, as_player_type, filename))

\* read_players: std::fs::read_to_string(file)?, serde_json::from_str(&contents)?, then
\* the loop over the entries
read_players_file(pl, file) ==
    IF file.tag \in {"open", "read"} THEN FileErr(pl)
    ELSE IF file.tag = "parse" THEN FileErr(pl)
    ELSE FileOk(read_players(pl, file.json))

\* read_regex_list that has lost its patterns when it returns an error
read_regex_list_file_clears(regx, file) ==
    IF file.tag = "open" THEN FileErr(<<>>)
    ELSE IF file.tag = "read" THEN FileErr(<<>>)
    ELSE FileOk(read_regex_list(regx, file.contents))

\* read_regex_list: File::open(filename)?, file.read_to_string(&mut contents)?, then
\* the loop over the lines
read_regex_list_file(regx, file) ==
    IF file.tag = "open" THEN FileErr(regx)
    ELSE IF file.tag = "read" THEN FileErr(regx)
    ELSE FileOk(read_regex_list(regx, file.contents))

\* number of imports in one behaviour
MaxFileOps == 4

ListFiles == {NoFile, Unreadable, TextFile(ScenarioAText), TextFile(TextMalformed)}

RecordFiles ==
    {NoFile, Unreadable, Unparsable, JsonFile([is_array |-> FALSE, items |-> <<>>]),
     JsonFile(JArray(<<EBot5, ECheater5>>)), JsonFile(JArray(<<EBadKind111, ESuspicious2>>))}

RegexListFiles == {NoFile, Unreadable, TextFile(FileScenarioE), TextFile(FileEmpty)}

\* "Import ..." of the GUI: read_from_steamid_list(&dir, player_type, saved)
ReadFromSteamidList(file, as_player_type, filename, saved) ==
    /\ nops + nrops < MaxFileOps
    /\ \E r \in {read_from_steamid_list(IF saved THEN players ELSE external_players,
                                        file, as_player_type, filename)} :
        /\ IF saved
           THEN players' = r.val /\ UNCHANGED external_players
           ELSE external_players' = r.val /\ UNCHANGED players
        /\ last' = [Pre("importList") EXCEPT !.kind = as_player_type, !.filename = filename,
                        !.saved = saved, !.file = file.tag, !.err = r.err]
    /\ nops' = nops + 1
    /\ UNCHANGED notStore

\* import_players with the file picked: read_players(pb)
ReadPlayersFile(file) ==
    /\ nops + nrops < MaxFileOps
    /\ \E r \in {read_players_file(players, file)} :
        /\ players' = r.val
        /\ last' = [Pre("importRecords") EXCEPT !.file = file.tag, !.err = r.err]
    /\ nops' = nops + 1
    /\ UNCHANGED <<external_players, notStore>>

\* "Import regex list" of the GUI: read_regex_list(pb)
ReadRegexListFile(file) ==
    /\ nops + nrops < MaxFileOps
    /\ \E r \in {read_regex_list_file(bots_regx, file)} :
        /\ bots_regx' = r.val
        /\ rlast' = [RegexPre("importPatternFile") EXCEPT !.file = file.tag, !.err = r.err]
    /\ nrops' = nrops + 1
    /\ UNCHANGED <<regx_file, players, external_players, last, nops, partyVars, apiVars,
                   unitVars, indicatorVars, ctlVars, rebuildVars, codecVars, handleVars>>

FilesNext ==
    \/ \E file \in ListFiles, k \in ImportKinds, f \in FileNames, saved \in BOOLEAN :
           ReadFromSteamidList(file, k, f, saved)
    \/ \E file \in RecordFiles : ReadPlayersFile(file)
    \/ \E file \in RegexListFiles : ReadRegexListFile(file)

\* ------------------------------------------------------------------------
\* The try_recv loop of the control loop on its own, with a log of what it handled
\* ------------------------------------------------------------------------

\* most responses that arrive
MaxHandled == 3

\* the responses the units send: every tuple the closure gives to response_s.send
UnitResponses ==
    UNION {SeqToSet(RunClosure(o, sh_key, Sid64[n]).send) :
               o \in Outcomes, sh_key \in ApiKeys, n \in ApiAccounts}

\* no response has arrived
HandleIdle ==
    /\ received = <<>>
    /\ handled = <<>>

\* the players of the server, before any response
HandleInit ==
    /\ steamapi_key = "key"
    /\ steamhistory_key \in ApiKeys
    /\ server_players \in {ServerPlayers(S) : S \in SUBSET ApiAccounts}
    /\ apis = <<NewApi(steamapi_key, steamhistory_key)>>
    /\ nreq = 0
    /\ HandleIdle

\* response_s.send((info, img, steamid)) of a unit: the tuple waits in the queue
ResponseArrives(r) ==
    /\ Len(handled) + Len(received) < MaxHandled
    /\ received' = Append(received, r)
    /\ UNCHANGED <<handled, apiVars, notHandle>>

\* "Handle finished steamid requests" of TF2BotKicker::update: try_recv until the
\* queue is empty
HandleReceived ==
    /\ received # <<>>
    /\ server_players' = HandleResponseQueue(server_players, received)
    /\ received' = <<>>
    /\ handled' = handled \o received
    /\ UNCHANGED <<steamapi_key, steamhistory_key, apis, nreq, notHandle>>

HandleNext ==
    \/ \E r \in UnitResponses : ResponseArrives(r)
    \/ HandleReceived

\* the enrichment thread before any key is set and any player is on the server
ApiIdle ==
    /\ steamapi_key = ""
    /\ steamhistory_key = ""
    /\ server_players = EmptyMap
    /\ apis = <<NewApi("", "")>>
    /\ nreq = 0

\* no unit is looked at on its own
UnitIdle ==
    /\ unit_in = [o |-> Outcome("err", "err", "Err", "request_err", FALSE), sh_key |-> "",
                  steamid |-> Sid64[1]]
    /\ unit_out = NotRun

\* the name patterns before any file is read
RegexIdle ==
    /\ bots_regx = <<>>
    /\ regx_file = <<>>
    /\ rlast = NoRegexLast
    /\ nrops = 0

\* the record store alone
StoreSpecInit ==
    StoreInit /\ PartyIdle /\ ApiIdle /\ RegexIdle /\ UnitIdle /\ IndicatorIdle /\ CtlIdle
    /\ RebuildIdle
    /\ CodecIdle
    /\ HandleIdle

StoreSpec == StoreSpecInit /\ [][StoreNext]_vars

\* the party detector alone
PartySpecInit ==
    PartyInit /\ StoreInit /\ ApiIdle /\ RegexIdle /\ UnitIdle /\ IndicatorIdle /\ CtlIdle
    /\ RebuildIdle
    /\ CodecIdle
    /\ HandleIdle

PartySpec == PartySpecInit /\ [][PartyNext]_vars

\* the enrichment thread and the side of the control loop that talks to it
ApiSpecInit ==
    ApiInit /\ StoreInit /\ PartyIdle /\ RegexIdle /\ UnitIdle /\ IndicatorIdle /\ CtlIdle
    /\ RebuildIdle
    /\ CodecIdle
    /\ HandleIdle

ApiSpec == ApiSpecInit /\ [][ApiNext]_vars

\* the threads are scheduled and their calls return: the worker of every thread, every
\* unit and a started "Apply" take their next step
ApiFairness ==
    /\ \A g \in Gens : WF_vars(WorkerSpawn(g)) /\ WF_vars(WorkerBreak(g)) /\ WF_vars(WorkerJoin(g))
    /\ \A g \in Gens : \A u \in UnitIds : WF_vars(\E o \in Outcomes : RunUnit(g, u, o))
    /\ WF_vars(\E order \in SendOrders(DOMAIN server_players) : ApplyApiKeySend(order))

ApiFairSpec == ApiSpecInit /\ [][ApiNext]_vars /\ ApiFairness

\* the name patterns, beside record stores that hold something or nothing
RegexSpecInit ==
    /\ RegexInit
    /\ players \in RegexStores
    /\ external_players \in RegexStores
    /\ last = NoLast
    /\ nops = 0
    /\ PartyIdle
    /\ ApiIdle
    /\ UnitIdle
    /\ IndicatorIdle
    /\ CtlIdle
    /\ RebuildIdle
    /\ CodecIdle
    /\ HandleIdle

RegexSpec == RegexSpecInit /\ [][RegexNext]_vars

\* one unit on its own
UnitSpecInit ==
    UnitInit /\ StoreInit /\ PartyIdle /\ ApiIdle /\ RegexIdle /\ IndicatorIdle /\ CtlIdle
    /\ RebuildIdle
    /\ CodecIdle
    /\ HandleIdle

UnitSpec == UnitSpecInit /\ [][UnitNext]_vars

\* the calls of the indicator on a detector that holds parties
IndicatorSpecInit ==
    IndicatorInit /\ StoreInit /\ ApiIdle /\ RegexIdle /\ UnitIdle /\ CtlIdle
    /\ RebuildIdle
    /\ CodecIdle
    /\ HandleIdle

IndicatorSpec == IndicatorSpecInit /\ [][IndicatorNext]_vars

\* the calls of the indicator on a detector that holds many parties
CrowdSpecInit ==
    /\ CrowdInit
    /\ StoreInit
    /\ ApiIdle
    /\ RegexIdle
    /\ UnitIdle
    /\ CtlIdle
    /\ RebuildIdle
    /\ CodecIdle
    /\ HandleIdle

CrowdSpec == CrowdSpecInit /\ [][IndicatorNext]_vars

\* the kicks and chat messages alone
CtlSpecInit ==
    CtlInit /\ StoreInit /\ PartyIdle /\ ApiIdle /\ RegexIdle /\ UnitIdle /\ IndicatorIdle
    /\ RebuildIdle
    /\ CodecIdle
    /\ HandleIdle

CtlSpec == CtlSpecInit /\ [][CtlNext]_vars

\* the party detector on a roster that changes between its rebuilds
RebuildSpecInit ==
    /\ RebuildInit
    /\ StoreInit
    /\ ApiIdle
    /\ RegexIdle
    /\ UnitIdle
    /\ IndicatorIdle
    /\ CtlIdle
    /\ CodecIdle
    /\ HandleIdle

RebuildSpec == RebuildSpecInit /\ [][RebuildNext]_vars

\* the conversions alone
\* the imports from files, on the record stores and the pattern list
FilesSpecInit ==
    /\ StoreInit
    /\ RegexInit
    /\ PartyIdle
    /\ ApiIdle
    /\ UnitIdle
    /\ IndicatorIdle
    /\ CtlIdle
    /\ RebuildIdle
    /\ CodecIdle
    /\ HandleIdle

FilesSpec == FilesSpecInit /\ [][FilesNext]_vars

\* the responses and the try_recv loop alone
HandleSpecInit ==
    /\ HandleInit
    /\ StoreInit
    /\ PartyIdle
    /\ RegexIdle
    /\ UnitIdle
    /\ IndicatorIdle
    /\ CtlIdle
    /\ RebuildIdle
    /\ CodecIdle

HandleSpec == HandleSpecInit /\ [][HandleNext]_vars

CodecSpecInit ==
    /\ CodecInit
    /\ StoreInit
    /\ PartyIdle
    /\ ApiIdle
    /\ RegexIdle
    /\ UnitIdle
    /\ IndicatorIdle
    /\ CtlIdle
    /\ RebuildIdle
    /\ HandleIdle

CodecSpec == CodecSpecInit /\ [][CodecNext]_vars

\* ========================================================================
\* Claims about the record store (checked under StoreSpec)
\* ========================================================================

IsEmptyDefault(r) == r.player_type = "Player" /\ r.notes = ""

\* C1: in every reachable state of the record store (any sequence of upsert,
\* importList and importRecords), the internal store holds no record with
\* kind = Player and empty notes.
C1_NoEmptyDefaultStored ==
    \A k \in DOMAIN players : ~IsEmptyDefault(players[k])

LastIsEmptyDefaultUpsert == last.op = "upsert" /\ IsEmptyDefault(last.record)

\* C2 as stated: after upsert of {identity: i, kind: Player, notes: empty}, from any
\* prior store state, the record of i is deleted and lookup(i) returns none.
C2_UpsertEmptyDefaultLookupNone ==
    LastIsEmptyDefaultUpsert =>
        /\ last.steamid \notin DOMAIN players
        /\ check_player_steamid(players, external_players, last.steamid) = NoRecord

\* C2 amended: after upsert of {identity: i, kind: Player, notes: empty} the internal
\* record of i is deleted, every other internal record and the external store are as
\* before, and lookup(i) returns the external record of i when there is one and none
\* otherwise.
C2_UpsertEmptyDefaultDeletes ==
    LastIsEmptyDefaultUpsert =>
        /\ last.steamid \notin DOMAIN players
        /\ DOMAIN players = DOMAIN last.pre_players \ {last.steamid}
        /\ \A k \in DOMAIN players : players[k] = last.pre_players[k]
        /\ external_players = last.pre_external
        /\ LET found == check_player_steamid(players, external_players, last.steamid)
           IN  IF last.steamid \in DOMAIN external_players
               THEN found.some /\ found.rec = external_players[last.steamid]
               ELSE ~found.some

\* Scenario B: an existing Bot record of U:1:5 was deleted by the upsert, lookup gives none
C2_Witness ==
    /\ LastIsEmptyDefaultUpsert
    /\ last.steamid = Id5
    /\ Id5 \in DOMAIN last.pre_players
    /\ last.pre_players[Id5].player_type = "Bot"
    /\ Id5 \notin DOMAIN players
    /\ ~check_player_steamid(players, external_players, Id5).some

\* C7: lookup(i) returns the internal record of i when the internal store has one,
\* otherwise the external record of i when the external store has one, otherwise none.
C7_LookupPrecedence ==
    last.op = "lookup" =>
        /\ last.steamid \in DOMAIN players =>
               last.result.some /\ last.result.rec = players[last.steamid]
        /\ (last.steamid \notin DOMAIN players /\ last.steamid \in DOMAIN external_players) =>
               last.result.some /\ last.result.rec = external_players[last.steamid]
        /\ (last.steamid \notin DOMAIN players /\ last.steamid \notin DOMAIN external_players) =>
               ~last.result.some

\* a lookup of an identity that both stores hold, with different records
C7_Witness ==
    /\ last.op = "lookup"
    /\ last.steamid \in DOMAIN players
    /\ last.steamid \in DOMAIN external_players
    /\ players[last.steamid] # external_players[last.steamid]
    /\ last.result = SomeRecord(players[last.steamid])

SeqRange(q) == {q[i] : i \in 1..Len(q)}

\* the identities importList finds in a text: the uuid group of every match of the
\* first expression, and every match of the second that converts to a SteamId32
FoundIds(contents) ==
    {RegCaptures(m, 1).uuid : m \in SeqRange(RegFindIter(contents, 1))}
    \cup {steamid_64_to_32(m).val :
            m \in {x \in SeqRange(Reg64FindIter(contents, 1)) : steamid_64_to_32(x).ok}}

TargetBefore == IF last.saved THEN last.pre_players ELSE last.pre_external

TargetAfter == IF last.saved THEN players ELSE external_players

\* C8: importList leaves the target store equal to its prior content plus, for exactly
\* the identities found in the text that were no key of the target store, one record
\* of kind asKind with the provenance note; records already present keep kind and
\* notes. Importing "[U:1:111] U:1:222 76561197960265730" as Bot into an empty store
\* gives exactly the three Bot records of U:1:111, U:1:222 and U:1:2.
C8_ImportListAddsNewOnly ==
    last.op = "importList" =>
        /\ DOMAIN TargetAfter = DOMAIN TargetBefore \cup FoundIds(last.contents)
        /\ \A k \in DOMAIN TargetBefore : TargetAfter[k] = TargetBefore[k]
        /\ \A k \in DOMAIN TargetAfter \ DOMAIN TargetBefore :
               TargetAfter[k] =
                   PlayerRecord(k, last.kind, "Imported from " \o last.filename \o " as " \o last.kind)
        /\ (last.contents = ScenarioAText /\ DOMAIN TargetBefore = {} /\ last.kind = "Bot") =>
               /\ DOMAIN TargetAfter = {Id111, Id222, Id2}
               /\ \A k \in DOMAIN TargetAfter : TargetAfter[k].player_type = "Bot"

\* Scenario A: the import into an empty store gave three Bot records
C8_Witness ==
    /\ last.op = "importList"
    /\ last.contents = ScenarioAText
    /\ last.kind = "Bot"
    /\ DOMAIN TargetBefore = {}
    /\ Cardinality(DOMAIN TargetAfter) = 3
    /\ TargetAfter[Id2].player_type = "Bot"

\* C9: running importList twice in a row with the same arguments leaves both record
\* stores exactly as running it once does.
C9_ImportListIdempotent ==
    (last.op = "importList" /\ last.repeat) =>
        /\ players = last.pre_players
        /\ external_players = last.pre_external

\* the second of two equal imports, of a text with identities, into a store that held
\* one of them under another kind before
C9_Witness ==
    /\ last.op = "importList"
    /\ last.repeat
    /\ FoundIds(last.contents) # {}
    /\ \E k \in FoundIds(last.contents) :
           k \in DOMAIN TargetAfter /\ TargetAfter[k].player_type # last.kind

RecognisedKinds == {"Player", "Bot", "Cheater", "Suspicious"}

EntryId(p) == IF p.steamid.str THEN p.steamid.v ELSE <<>>

EntryIsGood(p) ==
    /\ p.steamid.str /\ p.steamid.v # <<>>
    /\ p.player_type.str /\ p.player_type.v \in RecognisedKinds

EntryRecord(p) ==
    PlayerRecord(p.steamid.v, p.player_type.v, IF p.notes.str THEN p.notes.v ELSE "")

\* C10: importRecords on a well-formed list imports every entry with a non-empty
\* identity and a recognised kind and skips every other entry; a bad entry at any
\* position never prevents the entries before or after it from being imported.
\* (An identity ends with the record of its last good entry; an identity without a
\* good entry keeps what it had.)
C10_ImportRecordsPartialSuccess ==
    (last.op = "importRecords" /\ last.json.is_array) =>
        LET items   == last.json.items
            goodAt  == {i \in 1..Len(items) : EntryIsGood(items[i])}
            lastFor(k) == CHOOSE i \in goodAt :
                              /\ EntryId(items[i]) = k
                              /\ \A j \in goodAt : EntryId(items[j]) = k => j <= i
        IN  /\ \A i \in goodAt :
                   /\ EntryId(items[i]) \in DOMAIN players
                   /\ players[EntryId(items[i])] = EntryRecord(items[lastFor(EntryId(items[i]))])
            /\ \A k \in DOMAIN players :
                   \/ \E i \in goodAt : EntryId(items[i]) = k
                   \/ k \in DOMAIN last.pre_players /\ players[k] = last.pre_players[k]
            /\ DOMAIN last.pre_players \subseteq DOMAIN players
            /\ DOMAIN last.pre_players \subseteq DOMAIN players

\* a file with a bad entry between two good ones: both good ones are in the store
C10_Witness ==
    /\ last.op = "importRecords"
    /\ Len(last.json.items) = 3
    /\ EntryIsGood(last.json.items[1])
    /\ ~EntryIsGood(last.json.items[2])
    /\ EntryIsGood(last.json.items[3])
    /\ EntryId(last.json.items[1]) # EntryId(last.json.items[3])
    /\ players[EntryId(last.json.items[1])] = EntryRecord(last.json.items[1])
    /\ players[EntryId(last.json.items[3])] = EntryRecord(last.json.items[3])

\* C28: importRecords overwrites a record the internal store holds already: after it,
\* every identity that was in the store and has a valid entry in the file holds the
\* record of its last valid entry, whatever it held before, and the external store and
\* the pattern list are what they were.
C28_ImportRecordsOverwrites ==
    (last.op = "importRecords" /\ last.json.is_array) =>
        /\ \A k \in DOMAIN last.pre_players :
             \A i \in 1..Len(last.json.items) :
                 (/\ EntryIsGood(last.json.items[i])
                  /\ EntryId(last.json.items[i]) = k
                  /\ \A j \in (i + 1)..Len(last.json.items) :
                         ~(EntryIsGood(last.json.items[j]) /\ EntryId(last.json.items[j]) = k))
                 => players[k] = EntryRecord(last.json.items[i])
        /\ external_players = last.pre_external
        /\ bots_regx = <<>>

\* a file with two valid entries for an identity the store held with another record:
\* the store holds the record of the second entry, and the external store holds a
\* record the import left alone
C28_Witness ==
    /\ last.op = "importRecords"
    /\ Len(last.json.items) = 2
    /\ EntryIsGood(last.json.items[1])
    /\ EntryIsGood(last.json.items[2])
    /\ EntryId(last.json.items[1]) = EntryId(last.json.items[2])
    /\ EntryRecord(last.json.items[1]) # EntryRecord(last.json.items[2])
    /\ \E k \in {EntryId(last.json.items[2])} :
        /\ k \in DOMAIN last.pre_players
        /\ last.pre_players[k] # EntryRecord(last.json.items[1])
        /\ last.pre_players[k] # EntryRecord(last.json.items[2])
        /\ players[k] = EntryRecord(last.json.items[2])
    /\ external_players # EmptyMap

\* C29: an import whose file cannot be opened or read (importList, importPatternFile,
\* importRecords) or parsed (importRecords) returns an error and leaves the internal
\* store, the external store and the pattern list as they were.
C29_FailedImportChangesNothing ==
    [][((nops' # nops /\ last'.file # "ok") \/ (nrops' # nrops /\ rlast'.file # "ok")) =>
          /\ nops' # nops => last'.err
          /\ nrops' # nrops => rlast'.err
          /\ players' = players
          /\ external_players' = external_players
          /\ bots_regx' = bots_regx]_vars

\* an import of records and an import of patterns have failed, on stores and a
\* pattern list that earlier imports had filled
C29_Witness ==
    /\ last.op = "importRecords"
    /\ last.file = "parse"
    /\ last.err
    /\ players # EmptyMap
    /\ players = last.pre_players
    /\ rlast.op = "importPatternFile"
    /\ rlast.file = "open"
    /\ rlast.err
    /\ bots_regx # <<>>
    /\ bots_regx = rlast.pre_regx

\* an import of a list has failed on a store that an earlier import had filled
FailedListImport ==
    /\ last.op = "importList"
    /\ last.file = "read"
    /\ last.err
    /\ external_players # EmptyMap
    /\ external_players = last.pre_external

\* ========================================================================
\* Claims about the party detector (checked under PartySpec)
\* ========================================================================

\* the roster of the last rebuild
SnapRoster == DOMAIN snap.pm

\* A's fetched friends list contains B
ListsAsFriend(a, b) ==
    /\ snap.pm[a].account_info.tag = "Ok"
    /\ snap.pm[a].account_info.friends.tag = "Ok"
    /\ \E i \in 1..Len(snap.pm[a].account_info.friends.list) :
           snap.pm[a].account_info.friends.list[i] = Sid64[AccountOf(b)]

Linked(a, b) == ListsAsFriend(a, b) \/ ListsAsFriend(b, a)

RECURSIVE ReachableFrom(_)
ReachableFrom(S) ==
    IF \E b \in SnapRoster \ S : \E a \in S : Linked(a, b)
    THEN ReachableFrom(S \cup {b \in SnapRoster : \E a \in S : Linked(a, b)})
    ELSE S

\* the connected components of the friendship graph of the last roster
Components == {ReachableFrom({a}) : a \in SnapRoster}

PartySet == {parties[i] : i \in 1..Len(parties)}

\* C5: after rebuild on any roster snapshot the parties are pairwise disjoint, every
\* party has at least 2 members, and the parties together with the roster identities
\* that are in no party make up the roster.
C5_PartiesPartitionRoster ==
    snap.valid =>
        /\ \A i, j \in 1..Len(parties) : i # j => parties[i] \cap parties[j] = {}
        /\ \A i \in 1..Len(parties) : Cardinality(parties[i]) >= 2
        /\ UNION PartySet \cup {k \in SnapRoster : \A i \in 1..Len(parties) : k \notin parties[i]}
               = SnapRoster

\* a roster of four players that fall into two parties
C5_Witness ==
    /\ snap.valid
    /\ Cardinality(SnapRoster) = 4
    /\ Len(parties) = 2
    /\ parties[1] \cap parties[2] = {}
    /\ parties[1] \cup parties[2] = SnapRoster

\* C6: after rebuild the party list is exactly the set of connected components of
\* size at least 2 of the undirected graph on the roster that has an edge between A
\* and B whenever A's fetched friends list contains B and B is in the roster; players
\* without enrichment data, with an error result or without friends list contribute
\* no edge and cause no failure.
C6_PartiesAreComponents ==
    snap.valid =>
        /\ party_panic = ""
        /\ PartySet = {c \in Components : Cardinality(c) >= 2}
        /\ Len(parties) = Cardinality(PartySet)

\* Scenario C: A lists B, B lists nobody of the roster, C has no enrichment data:
\* one party {A, B}
C6_Witness ==
    /\ snap.valid
    /\ SnapRoster = {Sid32[1], Sid32[2], Sid32[3]}
    /\ ListsAsFriend(Sid32[1], Sid32[2])
    /\ snap.pm[Sid32[2]].account_info = InfoOk(FriendsOk(<<Sid64[4]>>))
    /\ snap.pm[Sid32[3]].account_info = InfoNone
    /\ parties = <<{Sid32[1], Sid32[2]}>>

\* find_parties after update on the roster pm iterated in the order `order`: the set of
\* the parties
PartitionOf(pm, order) ==
    SeqToSet(FilterParties(PartyGraph(order, BuildGraph(pm, order).graph).nodes))

\* C21: update and find_parties run again on the roster and account_info of the last
\* update, with the HashMap iterated in any order, give the set of parties that the
\* detector holds: the same sets of members.
C21_RebuildDeterministic ==
    (snap.valid /\ party_panic = "") =>
        \A order \in IterationOrders(snap.pm) : PartitionOf(snap.pm, order) = PartySet

\* the detector holds two parties, and a second run in the other order gives the same
\* two parties in another order
C21_Witness ==
    /\ snap.valid
    /\ Len(parties) = 2
    /\ \E order \in IterationOrders(snap.pm) :
        \E again \in {FilterParties(PartyGraph(order, BuildGraph(snap.pm, order).graph).nodes)} :
            /\ order # snap.order
            /\ again # parties
            /\ SeqToSet(again) = PartySet

\* C25: the assertion of find_parties (the condensed graph has no edge) holds after
\* update on every roster, whatever the friends lists: one-directional, mutual, or
\* holding the player's own identity.
C25_AssertionHolds == party_panic # "assert"

\* update has run on a roster with a player that lists itself, two players that list
\* each other and a player that lists one who does not list it
C25_Witness ==
    /\ snap.valid
    /\ party_panic = ""
    /\ \E a, b, c, d \in SnapRoster :
        /\ Cardinality({a, b, c, d}) = 4
        /\ ListsAsFriend(a, a)
        /\ ListsAsFriend(b, c) /\ ListsAsFriend(c, b)
        /\ ListsAsFriend(d, b) /\ ~ListsAsFriend(b, d)

\* C23: after a rebuild the detector holds what the roster of that rebuild gives and
\* nothing else: its players and the nodes of its graph are the players of the roster,
\* each once, every edge goes from a player to one its friends list holds, and the
\* parties are the components of two or more players of that roster, so every member
\* of a party is on the roster, whatever the detector held before.
C23_RebuildFromSnapshotOnly ==
    (snap.valid /\ party_panic = "") =>
        /\ p_players = snap.order
        /\ graph.nodes = snap.order
        /\ \A i \in 1..Len(graph.edges) :
               ListsAsFriend(graph.nodes[graph.edges[i][1]], graph.nodes[graph.edges[i][2]])
        /\ UNION PartySet \subseteq SnapRoster
        /\ PartySet = {c \in Components : Cardinality(c) >= 2}
        /\ Len(parties) = Cardinality(PartySet)

\* the detector held a party before the last rebuild, a member of it has left the
\* server, and the roster of the last rebuild still has players
C23_Witness ==
    /\ snap.valid
    /\ prev.valid
    /\ SnapRoster # {}
    /\ \E i \in 1..Len(prev.parties) : \E k \in prev.parties[i] : k \notin SnapRoster

\* the detector held a party before the last rebuild, and that rebuild was on a server
\* without players
RebuiltOnEmptyRoster ==
    /\ snap.valid
    /\ prev.valid
    /\ prev.parties # <<>>
    /\ SnapRoster = {}
    /\ parties = <<>>
    /\ graph = EmptyGraph

\* ------------------------------------------------------------------------
\* Claims about the enrichment thread
\* ------------------------------------------------------------------------

UnitsOf(g) == 1..Len(apis[g].units)

\* C3: a unit that has ended, whose response queue still has its receiver, has put
\* exactly one tuple on the response queue, and that tuple carries the identity of
\* the request the unit was started for, whatever its fetches came to.
C3_OneTuplePerRequest ==
    \A g \in 1..Len(apis) : \A u \in UnitsOf(g) :
        (~UnitRunning(apis[g].units[u]) /\ apis[g].response_receiver)
            => apis[g].units[u].sent = <<apis[g].units[u].steamid>>

\* C4: when the receiver of a response queue is gone and the worker of that queue has
\* ended, with no unit ended by anything but its delivery, then every unit has
\* finished without failing and the worker has exited cleanly.
C4_DeliveryBestEffort ==
    \A g \in 1..Len(apis) :
        (/\ ~apis[g].response_receiver
         /\ apis[g].worker \in {"exited", "panicked"}
         /\ \A u \in UnitsOf(g) : apis[g].units[u].cause \in {"", "send"})
            => (/\ apis[g].worker = "exited"
                /\ \A u \in UnitsOf(g) : apis[g].units[u].pc = "done")

\* ------------------------------------------------------------------------
\* Claims about the name patterns
\* ------------------------------------------------------------------------

\* the trimmed lines of a file, in file order
TrimmedLines(contents) == [i \in 1..Len(Lines(contents)) |-> Trim(Lines(contents)[i])]

IsPatternLine(l) == l # <<>> /\ RegexNewOk(l)

\* C11: importPatternFile leaves the pattern list equal to the list before it followed
\* by, in file order, the trimmed text of every line that is not empty and compiles,
\* duplicates included; lines that do not compile are skipped without stopping, and
\* the file of Scenario E adds exactly two patterns.
C11_ImportPatternFileAppends ==
    rlast.op = "importPatternFile" =>
        /\ bots_regx = rlast.pre_regx \o SelectSeq(TrimmedLines(rlast.contents), IsPatternLine)
        /\ rlast.contents = FileScenarioE => Len(bots_regx) = Len(rlast.pre_regx) + 2

\* the file of Scenario E is imported into a list that already holds patterns
C11_Witness ==
    /\ rlast.op = "importPatternFile"
    /\ rlast.contents = FileScenarioE
    /\ rlast.pre_regx # <<>>
    /\ Len(bots_regx) = Len(rlast.pre_regx) + 2

\* C16: after exportPatterns the file holds exactly the pattern list, one pattern per
\* line in list order, whatever it held before, and importPatternFile of the file into
\* an empty list gives the exported list.
C16_ExportHoldsExactlyList ==
    rlast.op = "exportPatterns" =>
        /\ regx_file = RegexBytes(bots_regx)
        /\ read_to_string(regx_file).ok
        /\ read_regex_list(<<>>, read_to_string(regx_file).val) = bots_regx

\* C20: classifyByName returns the pattern of lowest index among those that match the
\* name, none when no pattern matches, and leaves the pattern list and both record
\* stores as they were.
C20_ClassifyFirstMatch ==
    rlast.op = "classifyByName" =>
        LET hits == {i \in 1..Len(rlast.pre_regx) : RegexIsMatch(rlast.pre_regx[i], rlast.name)}
        IN  /\ hits = {} => rlast.result = NoRegex
            /\ hits # {} =>
                   /\ rlast.result.some
                   /\ rlast.result.index \in hits
                   /\ \A j \in hits : rlast.result.index <= j
                   /\ rlast.result.regx = rlast.pre_regx[rlast.result.index]
            /\ bots_regx = rlast.pre_regx
            /\ players = rlast.pre_players
            /\ external_players = rlast.pre_external

\* a name that two different patterns match, beside a record store that holds a record
C20_Witness ==
    /\ rlast.op = "classifyByName"
    /\ rlast.result.some
    /\ players # EmptyMap
    /\ \E j \in 1..Len(bots_regx) :
           /\ j > rlast.result.index
           /\ RegexIsMatch(bots_regx[j], rlast.name)
           /\ bots_regx[j] # rlast.result.regx

\* ------------------------------------------------------------------------
\* Claims about one unit
\* ------------------------------------------------------------------------

FetchOrder == <<"summary", "bans", "friends", "sourcebans", "avatar">>

\* the place of a fetch in FetchOrder
FetchRank(f) == CHOOSE k \in 1..Len(FetchOrder) : FetchOrder[k] = f

UnitErrResponse == <<Response(ErrInfo, FALSE, unit_in.steamid)>>

\* C12: the fetches of a unit are made in the order summary, ban history, friends,
\* third-party bans, avatar; when the summary fetch fails it is the only fetch and the
\* response is an error with the identity of the request; when the summary fetch
\* succeeds and the ban-history fetch fails these two are the only fetches and the
\* response is an error with the identity of the request.
C12_FetchOrderShortCircuit ==
    unit_out.ran =>
        LET r == unit_out.result
        IN  /\ r.fetched # <<>> /\ r.fetched[1] = "summary"
            /\ \A i \in 1..Len(r.fetched) : r.fetched[i] \in {"summary", "bans", "friends", "sourcebans", "avatar"}
            /\ \A i \in 1..(Len(r.fetched) - 1) :
                   FetchRank(r.fetched[i]) < FetchRank(r.fetched[i + 1])
            /\ unit_in.o.summary = "err" =>
                   r.fetched = <<"summary">> /\ r.send = UnitErrResponse
            /\ (unit_in.o.summary \in {"public", "private"} /\ unit_in.o.bans = "err") =>
                   r.fetched = <<"summary", "bans">> /\ r.send = UnitErrResponse

\* a unit whose summary is public and whose ban-history fetch failed, with a key for
\* the third-party bans
C12_Witness ==
    /\ unit_out.ran
    /\ unit_in.o.summary = "public"
    /\ unit_in.o.bans = "err"
    /\ unit_in.sh_key # ""
    /\ unit_out.result.send = UnitErrResponse

\* C13: when the summary and the ban-history fetches both succeed the unit sends one
\* response that is no error, whatever the other fetches come to: its friends are
\* absent when the profile is not public (and no friends fetch is made), its
\* third-party bans are absent when there is no key or that fetch fails, and its
\* image is absent when the image fetch fails.
C13_NonErrorResult ==
    (/\ unit_out.ran
     /\ unit_in.o.summary \in {"public", "private"}
     /\ unit_in.o.bans = "ok") =>
        LET r == unit_out.result
        IN  /\ Len(r.send) = 1
            /\ r.send[1].info.tag = "Ok"
            /\ r.send[1].steamid = unit_in.steamid
            /\ unit_in.o.summary = "private" =>
                   /\ r.send[1].info.friends = "None"
                   /\ \A i \in 1..Len(r.fetched) : r.fetched[i] # "friends"
            /\ (unit_in.sh_key = "" \/ unit_in.o.sourcebans \in {"request_err", "bad_json"}) =>
                   r.send[1].info.sourcebans = "None"
            /\ ~unit_in.o.avatar => ~r.send[1].img

\* ------------------------------------------------------------------------
\* Claims about the shutdown of an enrichment thread
\* ------------------------------------------------------------------------

SenderDropped(g) == g <= Len(apis) /\ ~apis[g].request_sender

\* the worker of thread g has ended and none of its units is running
ThreadEnded(g) ==
    /\ g <= Len(apis)
    /\ apis[g].worker \in {"exited", "panicked"}
    /\ \A u \in UnitsOf(g) : ~UnitRunning(apis[g].units[u])

\* once the Sender of an intake queue is dropped, its worker and all its units end
ShutdownEnds == \A g \in Gens : SenderDropped(g) ~> ThreadEnded(g)

\* a unit of a thread whose Sender is dropped that has ended while the Receiver of the
\* response queue is there has delivered its response
DeliveredWhileOpen ==
    \A g \in 1..Len(apis) : \A u \in UnitsOf(g) :
        (/\ ~apis[g].request_sender
         /\ apis[g].response_receiver
         /\ ~UnitRunning(apis[g].units[u]))
            => apis[g].units[u].sent = <<apis[g].units[u].steamid>>

\* C14: after the Sender of the intake queue is dropped the worker eventually ends,
\* with every unit that was in flight ended, and a unit that ends while the response
\* queue still has its Receiver has delivered its response.
C14_ShutdownCompletes == ShutdownEnds /\ []DeliveredWhileOpen

\* the worker of a thread has stopped receiving only with its intake queue empty and
\* the Sender of the queue dropped
StopsOnlyWhenDrained ==
    \A g \in 1..Len(apis) :
        apis[g].worker # "recv" => (apis[g].request_q = <<>> /\ ~apis[g].request_sender)

\* the requests in an intake queue whose Sender is dropped are all received
QueuedRequestsReceived ==
    \A g \in Gens : SenderDropped(g) ~> (SenderDropped(g) /\ apis[g].request_q = <<>>)

\* a step that takes a request from an intake queue takes the first one and starts one
\* unit for it, and units are started by no other step
OneUnitPerRequest ==
    \A g \in 1..Len(apis) :
        IF g <= Len(apis') /\ Len(apis'[g].units) # Len(apis[g].units)
        THEN /\ apis[g].request_q # <<>>
             /\ apis'[g].request_q = Tail(apis[g].request_q)
             /\ apis'[g].units = Append(apis[g].units, NewUnit(Head(apis[g].request_q)))
        ELSE g <= Len(apis') =>
                 \/ apis'[g].request_q = apis[g].request_q
                 \/ /\ apis[g].request_sender
                    /\ Len(apis'[g].request_q) > Len(apis[g].request_q)

\* a unit of a thread whose Sender is dropped that has ended, the response queue having
\* its Receiver, has put the response for its request on the queue
UnitsRespondAfterDisconnect ==
    \A g \in 1..Len(apis) :
        ~apis[g].request_sender =>
            \A u \in UnitsOf(g) :
                (apis[g].units[u].pc # "running" /\ apis[g].response_receiver)
                    => /\ Len(apis[g].units[u].sent) = 1
                       /\ apis[g].units[u].sent[1] = apis[g].units[u].steamid

\* C30: the requests that are in the intake queue when its Sender is dropped are still
\* received; each request received gets a unit of its own, and the unit its own
\* response; the worker stops receiving only when the queue is disconnected and empty.
C30_QueueDrainedAfterDisconnect ==
    /\ []StopsOnlyWhenDrained
    /\ QueuedRequestsReceived
    /\ [][OneUnitPerRequest]_vars
    /\ []UnitsRespondAfterDisconnect

\* the part of the claim about the queue and the units, without the responses
QueueDrainedIntoUnits ==
    /\ []StopsOnlyWhenDrained
    /\ QueuedRequestsReceived
    /\ [][OneUnitPerRequest]_vars

\* ------------------------------------------------------------------------
\* Claims about the responses the control loop applies
\* ------------------------------------------------------------------------

\* the responses of q for the player with key k, in the order of the queue
ResponsesFor(q, k) == SelectSeq(q, LAMBDA r : PlayerKey(r.steamid) = k)

\* C15: a step of the control loop that handles the finished requests gives each
\* response to the player of the server whose key is the identity of the response and
\* to no other: the players of the server stay the same set, their identities do not
\* change, a player with responses in the queue gets account_info and profile_image of
\* its last response, every other player is unchanged, and a response for an identity
\* that is not on the server changes nothing. No other step changes the players.
C15_ResponseToItsPlayerOnly ==
    [][/\ DOMAIN server_players' = DOMAIN server_players
       /\ \A k \in DOMAIN server_players :
            /\ server_players'[k].steamid32 = server_players[k].steamid32
            /\ server_players'[k].steamid64 = server_players[k].steamid64
            /\ IF HandleResponses /\ ResponsesFor(apis[Cur].response_q, k) # <<>>
               THEN \E mine \in {ResponsesFor(apis[Cur].response_q, k)} :
                        /\ server_players'[k].account_info = mine[Len(mine)].info
                        /\ server_players'[k].profile_image = mine[Len(mine)].img
               ELSE server_players'[k] = server_players[k]]_vars

\* two players of the server have got different account_info from their responses
C15_Witness ==
    \E k, j \in DOMAIN server_players :
        /\ server_players[k].account_info # NoInfo
        /\ server_players[j].account_info # NoInfo
        /\ server_players[k].account_info # server_players[j].account_info

\* a response for an identity that is not on the server has been handled
DiscardedResponse ==
    /\ apis[Cur].response_q = <<>>
    /\ \E u \in UnitsOf(Cur) :
        /\ apis[Cur].units[u].sent # <<>>
        /\ PlayerKey(apis[Cur].units[u].steamid) \notin DOMAIN server_players

\* C27: handling a response replaces account_info and profile_image of the player it
\* is for, whatever they were: once the loop has handled responses for a player, the
\* player holds account_info and profile_image of the response handled last for it,
\* an error or an empty one after a successful one too; a player no response was
\* handled for holds what it held at first.
C27_LastHandledReplaces ==
    \A k \in DOMAIN server_players :
        \E mine \in {ResponsesFor(handled, k)} :
            IF mine = <<>>
            THEN server_players[k] = ServerPlayer(CHOOSE n \in ApiAccounts : Sid32[n] = k)
            ELSE /\ server_players[k].account_info = mine[Len(mine)].info
                 /\ server_players[k].profile_image = mine[Len(mine)].img

\* a player got account_info and an avatar from a response and then an error or an
\* empty response: it holds the latter
C27_Witness ==
    \E k \in DOMAIN server_players :
        \E mine \in {ResponsesFor(handled, k)} :
            /\ Len(mine) >= 2
            /\ mine[Len(mine) - 1].info.tag = "Ok"
            /\ mine[Len(mine) - 1].img
            /\ mine[Len(mine)].info.tag # "Ok"
            /\ server_players[k].account_info = mine[Len(mine)].info
            /\ ~server_players[k].profile_image

\* ------------------------------------------------------------------------
\* Claims about the party indicator (checked under IndicatorSpec)
\* ------------------------------------------------------------------------

\* the players of the parties
PartyMembers == UNION {parties[i] : i \in 1..Len(parties)}

\* the party of a member
PartyOf(steamid32) == parties[PartyPosition(parties, steamid32) + 1]

\* C17: the symbol of the indicator tells whether the user shares the party: for every
\* user and every two members of parties, one of a party with the user in it and one of
\* a party without, the symbols of their indicators differ.
C17_SymbolSignalsSelf ==
    \A user \in PartyMembers : \A a \in PartyOf(user) : \A b \in PartyMembers \ PartyOf(user) :
        \E ia \in {get_player_party_indicator(parties, a)} :
        \E ib \in {get_player_party_indicator(parties, b)} :
            ia.tag = "Some" /\ ib.tag = "Some" /\ ia.symbol # ib.symbol

\* C18: a call of the indicator returns None exactly for a player that is in no party,
\* returns for a member of the party at index k (from 0) the colour of the palette at
\* index k mod the length of the palette, and leaves the players, the graph and the
\* parties of the detector as they were.
C18_IndicatorColorReadOnly ==
    [][\A p \in IndicatorPlayers : GetPlayerPartyIndicator(p) =>
          /\ p_players' = p_players /\ graph' = graph /\ parties' = parties
          /\ (asked'.result = NoIndicator) <=> (p \notin PartyMembers)
          /\ \A k \in 0..(Len(parties) - 1) :
                p \in parties[k + 1] =>
                    /\ asked'.result.tag = "Some"
                    /\ asked'.result.color = COLOR_PALETTE[(k % Len(COLOR_PALETTE)) + 1]]_vars

\* C26: a call of the indicator never indexes outside INDICATOR_SYMBOLS: the index of
\* the party of the player, divided by the length of the palette, is less than the
\* number of symbols, however many players and parties there are.
C26_SymbolIndexInBounds ==
    (asked.valid /\ PartyPosition(parties, asked.steamid32) >= 0) =>
        /\ PartyPosition(parties, asked.steamid32) \div Len(COLOR_PALETTE)
               < Len(INDICATOR_SYMBOLS)
        /\ asked.result # IndicatorPanic

\* the indicator of a member of the party at index 83, the last one with a symbol
LastSymbolInBounds ==
    /\ asked.valid
    /\ PartyPosition(parties, asked.steamid32) = 83
    /\ asked.result = SomeIndicator("diamond", COLOR_PALETTE[21])

\* ------------------------------------------------------------------------
\* Claims about "Pause actions" (checked under CtlSpec)
\* ------------------------------------------------------------------------

\* C19: no request that calls a votekick or sends a chat message is given to state.io
\* while "Pause actions" is on, by the control loop or by a user action of the player
\* list.
C19_PausedSendsNothing ==
    \A i \in 1..Len(io_sent) :
        io_sent[i].request.command \in {"callvote kick", "say"} => ~io_sent[i].paused

\* what the control loop sends on its own was sent with "Pause actions" off
PausedLoopSendsNothing ==
    [][\A kick_due, alert_due, has_message \in BOOLEAN : \A bots, cheaters \in KickTargets :
          (paused /\ UpdateKicks(kick_due, alert_due, bots, cheaters, has_message))
              => io_sent' = io_sent]_vars

\* ------------------------------------------------------------------------
\* Claims about the requests sent with an empty key (checked under ApiSpec)
\* ------------------------------------------------------------------------

\* C24: while state.settings.steamapi_key is empty no request is sent to the intake
\* queue: neither the control loop with its pending_lookup list nor "Apply" of the key
\* window, applied with an empty key, adds a request to the queue.
C24_NoRequestWithEmptyKey ==
    [][steamapi_key = "" =>
          /\ \A len \in 0..MaxRequests : \A pending_lookup \in PendingLookups(len) :
                 SendPendingLookups(pending_lookup)
                     => apis'[Cur].request_q = apis[Cur].request_q
          /\ \A order \in SendOrders(DOMAIN server_players) :
                 ApplyApiKeySend(order) => apis'[Cur].request_q = apis[Cur].request_q]_vars

\* the control loop alone sends nothing while the key is empty
LoopSendsNothingWithEmptyKey ==
    [][steamapi_key = "" =>
          \A len \in 0..MaxRequests : \A pending_lookup \in PendingLookups(len) :
              SendPendingLookups(pending_lookup)
                  => apis'[Cur].request_q = apis[Cur].request_q]_vars

\* ------------------------------------------------------------------------
\* Claims about the conversions (checked under CodecSpec)
\* ------------------------------------------------------------------------

\* a decimal number written without leading zeros
Canonical(t) == Len(t) >= 1 /\ (\A i \in 1..Len(t) : t[i] \in Digits) /\ (Len(t) = 1 \/ t[1] # "0")

\* U:<universe>:<digits>
WellFormed32(s) ==
    /\ Len(s) >= 5
    /\ s[1] = "U" /\ s[2] = ":" /\ s[3] \in Digits /\ s[4] = ":"
    /\ \A i \in 5..Len(s) : s[i] \in Digits

\* a decimal number that is not below the offset
WellFormed64(s) ==
    /\ Len(s) >= 1
    /\ \A i \in 1..Len(s) : s[i] \in Digits
    /\ GeDigits(PadTo(ToDigits(s), IF Len(s) > 17 THEN Len(s) ELSE 17),
                PadTo(OffsetDigits, IF Len(s) > 17 THEN Len(s) ELSE 17))

\* C22, as claimed: the round trip gives x back for every x of the form
\* U:<universe>:<digits>, and y back for every steamid64 y.
C22_RoundTripAnyUniverse ==
    codec_out.ran =>
        /\ (codec_in.form = "SteamId32" /\ WellFormed32(codec_in.text))
               => (codec_out.back.ok /\ codec_out.back.val = codec_in.text)
        /\ (codec_in.form = "SteamId64" /\ WellFormed64(codec_in.text))
               => (codec_out.back.ok /\ codec_out.back.val = codec_in.text)

\* C22, amended: the round trip gives x back for every x of the form U:1:<account>
\* with the account number written without leading zeros, where the steamid64 in
\* between is the account number plus 76561197960265728, and gives y back for every
\* steamid64 y not below the offset that is written without leading zeros.
C22_RoundTripCanonical ==
    codec_out.ran =>
        /\ (/\ codec_in.form = "SteamId32"
            /\ SubSeq(codec_in.text, 1, 4) = U1Prefix
            /\ Canonical(SubSeq(codec_in.text, 5, Len(codec_in.text))))
               => /\ codec_out.mid.ok
                  /\ Canonical(codec_out.mid.val)
                  /\ SubDigits(ToDigits(codec_out.mid.val), OffsetDigits, 17, 0)
                         = PadTo(ToDigits(SubSeq(codec_in.text, 5, Len(codec_in.text))), 17)
                  /\ codec_out.back.ok
                  /\ codec_out.back.val = codec_in.text
        /\ (/\ codec_in.form = "SteamId64"
            /\ WellFormed64(codec_in.text)
            /\ Canonical(codec_in.text))
               => /\ codec_out.mid.ok
                  /\ codec_out.back.ok
                  /\ codec_out.back.val = codec_in.text

\* the round trip of a two-digit account number of universe 1 has run
C22_Witness ==
    /\ codec_out.ran
    /\ codec_in.form = "SteamId32"
    /\ codec_in.text = U1Prefix \o <<"1", "9">>
    /\ codec_out.mid = OkResult(ToChars(<<7, 6, 5, 6, 1, 1, 9, 7, 9, 6, 0, 2, 6, 5, 7, 4, 7>>))
    /\ codec_out.back = OkResult(codec_in.text)

====
